---- MODULE Spec2Model ----
(***************************************************************************)
(* Model of the cast daemon (src/src/main/cast-daemon.py): the connection  *)
(* registry `connections`, get_or_create_connection, the verb handlers,    *)
(* process_command and the read loop of main; and of the relay functions   *)
(* of the one-shot helper (src/src/main/cast-helper.py): WebRTCController, *)
(* webrtc_launch, webrtc_proxy_connect and webrtc_launch_multicast.        *)
(*                                                                         *)
(* Everything the program cannot decide itself (what a line holds, whether *)
(* a device call raises, what discovery finds, what the device sends) is   *)
(* an input chosen with \E. Volumes are counted in tenths (5 is 0.5);      *)
(* time.time() is the number of lines read so far.                         *)
(*                                                                         *)
(* The daemon and the helper are two programs: Spec runs the daemon and    *)
(* leaves the helper's variables as they start, HelperSpec runs one call   *)
(* of a helper function and leaves the daemon's.                           *)
(***************************************************************************)
EXTENDS Integers, Sequences, FiniteSets

VARIABLES
    connections,   \* the dict `connections`: speaker name -> entry
    browsers,      \* discovery browsers started and not stopped
    nextId,        \* identity of the next Chromecast/browser pair discovery makes
    nDiscovery,    \* calls of pychromecast.get_listed_chromecasts so far
    pc,            \* position of main: "read", "process", "write", "finally", "stopped"
    nlines,        \* lines taken from sys.stdin so far (blank ones included)
    nonblank,      \* non-empty lines taken so far
    cur,           \* the line being handled
    result,        \* what the handling of cur produced, to be printed
    before,        \* the registry and counters as they were when cur was taken up
    env,           \* what the outside did while cur was handled
    trace,         \* what the handling of cur did (probe, discovery, device calls)
    out            \* the response lines printed to stdout, in order

\* cast-helper.py: one call of webrtc_launch or webrtc_proxy_connect
VARIABLES
    call,          \* the function running and its arguments
    hpc,           \* its position
    steps,         \* what it has done to the device and the endpoints, in order
    browser,       \* its local `browser` (0 for None)
    running,       \* the browsers it started and has not stopped
    poll,          \* the counter of the loop it is in (readiness or verification)
    ready,         \* the last status poll showed the receiver's app id
    connected,     \* local of the verification
    data_flowing,  \* local of the verification
    seen,          \* what the replies to the verification polls held
    messages,      \* WebRTCController.messages
    message_event, \* WebRTCController.message_event (set or not)
    rx,            \* the message receive_message has appended and not yet signalled
    arrivals,      \* every message receive_message was called with, and when
    waits,         \* calls of message_event.wait so far
    waited,        \* seconds spent in message_event.wait
    started,       \* how cast.start_app ended
    offer_response,\* what wait_for_message returned
    http,          \* what the negotiation endpoint answered to the POST
    sent,          \* the messages sent to the device, in order
    ret            \* the value returned (NoReturn while running)

\* cast-helper.py: webrtc_launch_multicast
VARIABLES
    mpc,           \* its position: "none", "loop", "call", "done"
    speaker_names, \* the list of names it was called with
    speaker_ips,   \* the list of hints it was called with (<<>> for None)
    idx,           \* devices of the list done with
    launched,      \* the list `launched`
    failed,        \* the list `failed`
    attempts,      \* the calls of webrtc_launch it made: name, hint and outcome
    mret           \* the value returned (NoReturn while running)

\* cast-helper.py: one call of get_group_members
VARIABLES
    gpc,           \* its position
    group_name,    \* the name it was called with
    chromecasts,   \* the list get_chromecasts returned
    gbrowser,      \* its local `browser`: "none", "running" or "stopped"
    group_cast,    \* the device taken for the group
    member_uuids,  \* what the member-list query yielded
    queries,       \* calls of update_members so far
    gret           \* the value returned (NoReturn while running)

\* cast-helper.py: one call of hls_cast_to_tv and its launch thread
VARIABLES
    tcall,         \* its arguments
    tpc,           \* the caller's position
    lpc,           \* the position of launch_thread ("none" before it is started)
    tbrowser,      \* the caller's local `browser`: "none", "running", "stopped"
    launch_success,\* launch_success[0]
    launch_error,  \* launch_error[0] ("" for None)
    joined,        \* how launch_thread.join(timeout=35) ended
    tret           \* the value returned (NoReturn while running)

\* cast-daemon.py: its handlers called from threads that run concurrently
VARIABLES
    handlers,      \* per thread: the function it runs, its speaker and position
    lock,          \* connections_lock: the thread that holds it, 0 when free
    registry,      \* the dict `connections` the threads share
    fault          \* a del found its key gone (KeyError)

\* cast-helper.py: one run of the script with the verb webrtc-connect,
\* set-volume or set-volume-fast
VARIABLES
    wcall,         \* the verb and its arguments
    wpc,           \* where the function called is
    wrunning,      \* the browsers it started and has not stopped
    tries,         \* how each send of the connect message ended
    wdevice,       \* the volume cast.set_volume was called with (NoStatus: not called)
    wret           \* the value returned (NoReturn while running)

dvars == <<connections, browsers, nextId, nDiscovery, pc, nlines, nonblank,
           cur, result, before, env, trace, out>>

\* the locals of one relay call
cvars == <<call, hpc, steps, browser, running, started, poll, ready, connected, data_flowing,
           seen, messages, message_event, rx, arrivals, waits, waited,
           offer_response, http, sent, ret>>

mvars == <<mpc, speaker_names, speaker_ips, idx, launched, failed, attempts, mret>>

gvars == <<gpc, group_name, chromecasts, gbrowser, group_cast, member_uuids,
           queries, gret>>

tvars == <<tcall, tpc, lpc, tbrowser, launch_success, launch_error, joined, tret>>

lvars == <<handlers, lock, registry, fault>>

wvars == <<wcall, wpc, wrunning, tries, wdevice, wret>>

\* the variables of the helper's other functions and of the threaded daemon
xvars == <<gvars, tvars, lvars, wvars>>

hvars == <<cvars, mvars, xvars>>

vars == <<dvars, hvars>>

-----------------------------------------------------------------------------
(* Bounds and inputs *)

MaxLines == 3

Names == {"Den", "Kitchen"}
Hosts == {"10.0.0.5", "10.0.0.6"}

Verbs == {"set-volume", "get-volume", "ping", "connect", "disconnect",
          "status", "quit"}
LookupVerbs == {"set-volume", "get-volume", "ping", "connect"}
\* Besides the verbs a line can carry a cmd the daemon does not know
\* ("reboot"), or none: "" (cmd_data.get('cmd', '')).

DefaultVolume == 5
MinVolume == 0
MaxVolume == 10
\* the volume field: a number (in tenths), or something float() rejects;
\* given is FALSE for a line without the field
Volumes == {[given |-> TRUE, num |-> TRUE, v |-> 5],
            [given |-> TRUE, num |-> TRUE, v |-> 15],
            [given |-> TRUE, num |-> FALSE, v |-> 0],
            [given |-> FALSE, num |-> TRUE, v |-> 0]}
NoVolume == [given |-> FALSE, num |-> TRUE, v |-> 0]

Outcome == {"ok", "raise"}

NoLine == [kind |-> "none", cmd |-> "", speaker |-> "", ip |-> FALSE,
           volume |-> NoVolume, seq |-> 0]

\* The lines stdin can deliver. kind: "blank" (empty after strip), "badjson"
\* (json.loads raises JSONDecodeError), "nonobject" (JSON, but not an object),
\* "object". Fields a verb does not read are left at their defaults.
Lines ==
    {[NoLine EXCEPT !.kind = k] : k \in {"blank", "badjson", "nonobject"}}
    \cup {[NoLine EXCEPT !.kind = "object", !.cmd = c] :
             c \in {"status", "quit", "reboot", ""}}
    \cup {[NoLine EXCEPT !.kind = "object", !.cmd = "disconnect", !.speaker = s] :
             s \in Names}
    \cup {[NoLine EXCEPT !.kind = "object", !.cmd = c, !.speaker = s, !.ip = h] :
             c \in {"get-volume", "ping", "connect"}, s \in Names, h \in BOOLEAN}
    \cup {[NoLine EXCEPT !.kind = "object", !.cmd = "set-volume", !.speaker = s,
                         !.ip = h, !.volume = v] :
             s \in Names, h \in BOOLEAN, v \in Volumes}

-----------------------------------------------------------------------------
(* The registry *)

\* connections = {} (line 30)
EmptyRegistry == [n \in {} |-> 0]

Has(conns, name) == name \in DOMAIN conns

Put(conns, name, entry) ==
    [n \in DOMAIN conns \cup {name} |-> IF n = name THEN entry ELSE conns[n]]

Del(conns, name) == [n \in DOMAIN conns \ {name} |-> conns[n]]

\* What the handling of one line did. probe: "none", "ok" or "dead";
\* evicted: the handle deleted after a dead probe; scan: "none", "hinted" or
\* "full"; discovery: get_listed_chromecasts calls; created: the handle
\* created; ret: the handle get_or_create_connection returned (0 for None);
\* ops: the device calls made outside get_or_create_connection, in order;
\* failed: those of them that raised; sent: the volumes passed to
\* cast.set_volume; raised: some call raised, inside or outside
\* get_or_create_connection;
\* caught: where an exception that ended the handler was caught ("none",
\* "handler" for the verb's own except clause, "main" for main's)
NoTrace == [probe |-> "none", evicted |-> 0, scan |-> "none", discovery |-> 0,
            created |-> 0, ret |-> 0, ops |-> <<>>, failed |-> {}, sent |-> {},
            raised |-> FALSE, caught |-> "none"]

\* The world a handler works on: the registry, the running browsers, the
\* discovery counters and the record of what the handler did.
World == [connections |-> connections, browsers |-> browsers, nextId |-> nextId,
          nDiscovery |-> nDiscovery, trace |-> NoTrace]

-----------------------------------------------------------------------------
(* What the outside decides while one command is handled *)

\* probe: `_ = cast.status` on the cached handle; stopOld: stop_discovery of
\* the evicted entry's browser; disc: get_listed_chromecasts ("found", "empty"
\* or it raises); stopNew: stop_discovery after an empty result; wait:
\* cast.wait(timeout=5); host: cast.cast_info.host of the device found;
\* op: the verb's own device call; status: the volume the device status
\* reports (NoStatus when cast.status is None)
NoStatus == -1
StatusVolumes == {NoStatus, 3}

\* for disconnect_speaker: quit1, start, quit2 (the chime), hangup
\* (cast.disconnect) and stop (stop_discovery); for cleanup_all: the entries
\* whose cast.disconnect raises (badHangup) and whose stop_discovery raises
\* (badStop)
CalmEnv == [probe |-> "ok", stopOld |-> "ok", disc |-> "found", stopNew |-> "ok",
            wait |-> "ok", host |-> "10.0.0.5", op |-> "ok", status |-> 3,
            quit1 |-> "ok", start |-> "ok", quit2 |-> "ok", hangup |-> "ok",
            stop |-> "ok", badHangup |-> {}, badStop |-> {}]

-----------------------------------------------------------------------------
(* get_or_create_connection *)

\* EvictDead without the del of line 69
EvictDeadKeepsEntry(w, name, e) ==
    LET conn == w.connections[name]
    IN [w EXCEPT !.browsers = IF e.stopOld = "ok" THEN @ \ {conn.browser} ELSE @,
                 !.trace.probe = "dead",
                 !.trace.evicted = conn.cast,
                 !.trace.raised = TRUE]

\* lines 61-69: the probe raised; stop the entry's browser (errors ignored)
\* and delete the entry
EvictDead(w, name, e) ==
    LET conn == w.connections[name]
    IN [w EXCEPT !.connections = Del(w.connections, name),
                 !.browsers = IF e.stopOld = "ok" THEN @ \ {conn.browser} ELSE @,
                 !.trace.probe = "dead",
                 !.trace.evicted = conn.cast,
                 !.trace.raised = TRUE]

\* CreateConnection with the entry stored before cast.wait (lines 100-105
\* moved above line 97): a wait that raises leaves the entry behind
CreateCachesBeforeWait(w, name, hinted, now, e) ==
    LET id == w.nextId
        w1 == [w EXCEPT !.nDiscovery = @ + 1,
                        !.trace.discovery = @ + 1,
                        !.trace.scan = IF hinted THEN "hinted" ELSE "full"]
        w2 == [w1 EXCEPT !.browsers = @ \cup {id}, !.nextId = @ + 1]
        w3 == [w2 EXCEPT !.connections =
                             Put(@, name, [cast |-> id, browser |-> id,
                                           connected_at |-> now, ip |-> e.host])]
    IN CASE e.disc = "raise" ->
              [w |-> [w1 EXCEPT !.trace.raised = TRUE], cast |-> 0, browser |-> 0,
               host |-> ""]
         [] e.disc = "empty" /\ e.stopNew = "ok" ->
              [w |-> w1, cast |-> 0, browser |-> 0, host |-> ""]
         [] e.disc = "empty" /\ e.stopNew = "raise" ->
              [w |-> [w2 EXCEPT !.trace.raised = TRUE], cast |-> 0, browser |-> 0,
               host |-> ""]
         [] e.disc = "found" /\ e.wait = "raise" ->
              [w |-> [w3 EXCEPT !.trace.raised = TRUE], cast |-> 0, browser |-> 0,
               host |-> ""]
         [] OTHER ->
              [w |-> [w3 EXCEPT !.trace.created = id, !.trace.ret = id],
               cast |-> id, browser |-> id, host |-> e.host]

\* CreateConnection without lines 100-105: the handle is returned and never
\* stored
CreateWithoutCaching(w, name, hinted, now, e) ==
    LET id == w.nextId
        w1 == [w EXCEPT !.nDiscovery = @ + 1,
                        !.trace.discovery = @ + 1,
                        !.trace.scan = IF hinted THEN "hinted" ELSE "full"]
        w2 == [w1 EXCEPT !.browsers = @ \cup {id}, !.nextId = @ + 1]
    IN CASE e.disc = "raise" ->
              [w |-> [w1 EXCEPT !.trace.raised = TRUE], cast |-> 0, browser |-> 0,
               host |-> ""]
         [] e.disc = "empty" /\ e.stopNew = "ok" ->
              [w |-> w1, cast |-> 0, browser |-> 0, host |-> ""]
         [] e.disc = "empty" /\ e.stopNew = "raise" ->
              [w |-> [w2 EXCEPT !.trace.raised = TRUE], cast |-> 0, browser |-> 0,
               host |-> ""]
         [] e.disc = "found" /\ e.wait = "raise" ->
              [w |-> [w2 EXCEPT !.trace.raised = TRUE], cast |-> 0, browser |-> 0,
               host |-> ""]
         [] OTHER ->
              [w |-> [w2 EXCEPT !.trace.created = id, !.trace.ret = id],
               cast |-> id, browser |-> id, host |-> e.host]

\* lines 74-112: discovery (hinted when speaker_ip is given, else full),
\* cast.wait, and the insertion into the registry. Every exception ends in
\* the except clause of line 110, which returns None.
CreateConnection(w, name, hinted, now, e) ==
    LET id == w.nextId
        w1 == [w EXCEPT !.nDiscovery = @ + 1,
                        !.trace.discovery = @ + 1,
                        !.trace.scan = IF hinted THEN "hinted" ELSE "full"]
        \* get_listed_chromecasts returned: its browser is running
        w2 == [w1 EXCEPT !.browsers = @ \cup {id}, !.nextId = @ + 1]
    IN CASE e.disc = "raise" ->
              [w |-> [w1 EXCEPT !.trace.raised = TRUE], cast |-> 0, browser |-> 0,
               host |-> ""]
         [] e.disc = "empty" /\ e.stopNew = "ok" ->
              [w |-> w1, cast |-> 0, browser |-> 0, host |-> ""]
         [] e.disc = "empty" /\ e.stopNew = "raise" ->
              [w |-> [w2 EXCEPT !.trace.raised = TRUE], cast |-> 0, browser |-> 0,
               host |-> ""]
         [] e.disc = "found" /\ e.wait = "raise" ->
              [w |-> [w2 EXCEPT !.trace.raised = TRUE], cast |-> 0, browser |-> 0,
               host |-> ""]
         [] OTHER ->
              [w |-> [w2 EXCEPT !.connections =
                                    Put(@, name, [cast |-> id, browser |-> id,
                                                  connected_at |-> now,
                                                  ip |-> e.host]),
                                !.trace.created = id,
                                !.trace.ret = id],
               cast |-> id, browser |-> id, host |-> e.host]

\* get_or_create_connection without the early return of line 60: a live
\* cached handle is probed, and a connection is created all the same
GetOrCreateWithoutFastPath(w, name, hinted, now, e) ==
    IF Has(w.connections, name) /\ e.probe = "ok"
    THEN CreateConnection([w EXCEPT !.trace.probe = "ok"], name, hinted, now, e)
    ELSE CreateConnection(IF Has(w.connections, name)
                          THEN EvictDead(w, name, e) ELSE w,
                          name, hinted, now, e)

\* lines 42-112. The result: the world afterwards, the handle returned
\* (0 for None), the browser returned (0 for None) and the handle's
\* cast_info.host.
GetOrCreateConnection(w, name, hinted, now, e) ==
    IF Has(w.connections, name) /\ e.probe = "ok"
    THEN [w |-> [w EXCEPT !.trace.probe = "ok",
                          !.trace.ret = w.connections[name].cast],
          cast |-> w.connections[name].cast, browser |-> 0,
          host |-> w.connections[name].ip]
    ELSE CreateConnection(IF Has(w.connections, name)
                          THEN EvictDead(w, name, e) ELSE w,
                          name, hinted, now, e)

-----------------------------------------------------------------------------
(* Responses *)

NoResult == [success |-> FALSE, kind |-> "none", message |-> "", error |-> <<>>,
             volume |-> NoStatus, muted |-> FALSE, ip |-> "", speaker |-> "",
             listing |-> {}, count |-> 0]

Ok(kind) == [NoResult EXCEPT !.success = TRUE, !.kind = kind]
OkSaying(kind, message) == [Ok(kind) EXCEPT !.message = message]

\* {"success": False, "error": ...}: the error text is the pair of its fixed
\* part and the value put into it
Fail(kind, text, arg) ==
    [NoResult EXCEPT !.kind = kind, !.error = <<text, arg>>]

NotFound(name) == Fail("notfound", "Speaker not found", name)

\* a device call that returned, and one that raised
Called(w, op) == [w EXCEPT !.trace.ops = Append(@, op)]
Raised(w, op) ==
    [w EXCEPT !.trace.ops = Append(@, op), !.trace.failed = @ \cup {op},
              !.trace.raised = TRUE]
\* the verb's own except clause took the exception
Caught(w) == [w EXCEPT !.trace.raised = TRUE, !.trace.caught = "handler"]

-----------------------------------------------------------------------------
(* The verbs *)

Max(a, b) == IF a >= b THEN a ELSE b
Min(a, b) == IF a <= b THEN a ELSE b

\* line 118: max(0.0, min(1.0, float(volume)))
Clamp(v) == Max(MinVolume, Min(MaxVolume, v))

\* set_volume whose except clause answers success (the error of
\* cast.set_volume is lost)
set_volumeHidesError(w, name, volume, hinted, now, e) ==
    IF ~volume.num
    THEN [w |-> Caught(w), result |-> Fail("exception", "could not convert", "volume")]
    ELSE LET g == GetOrCreateConnection(w, name, hinted, now, e)
             v == Clamp(volume.v)
         IN IF g.cast = 0
            THEN [w |-> g.w, result |-> NotFound(name)]
            ELSE IF e.op = "raise"
            THEN [w |-> Caught(Raised(g.w, "set_volume")),
                  result |-> [Ok("volume") EXCEPT !.volume = v]]
            ELSE [w |-> [Called(g.w, "set_volume") EXCEPT !.trace.sent = {v}],
                  result |-> [Ok("volume") EXCEPT !.volume = v]]

\* lines 115-131. float(volume) is evaluated before the lookup.
set_volume(w, name, volume, hinted, now, e) ==
    IF ~volume.num
    THEN [w |-> Caught(w), result |-> Fail("exception", "could not convert", "volume")]
    ELSE LET g == GetOrCreateConnection(w, name, hinted, now, e)
             v == Clamp(volume.v)
         IN IF g.cast = 0
            THEN [w |-> g.w, result |-> NotFound(name)]
            ELSE IF e.op = "raise"
            THEN [w |-> Caught(Raised(g.w, "set_volume")),
                  result |-> Fail("exception", "device error", "set_volume")]
            ELSE [w |-> [Called(g.w, "set_volume") EXCEPT !.trace.sent = {v}],
                  result |-> [Ok("volume") EXCEPT !.volume = v]]

\* lines 134-147. cast.status is read; without a status the answer is 0.5.
\* The muted flag of the status is taken to be False.
get_volume(w, name, hinted, now, e) ==
    LET g == GetOrCreateConnection(w, name, hinted, now, e)
    IN IF g.cast = 0
       THEN [w |-> g.w, result |-> NotFound(name)]
       ELSE IF e.op = "raise"
       THEN [w |-> Caught(Raised(g.w, "status")),
             result |-> Fail("exception", "device error", "status")]
       ELSE [w |-> Called(g.w, "status"),
             result |-> [Ok("get-volume") EXCEPT
                            !.volume = IF e.status = NoStatus
                                       THEN DefaultVolume ELSE e.status]]

\* lines 150-168. Without a status the volume answered is None.
ping_speaker(w, name, hinted, now, e) ==
    LET g == GetOrCreateConnection(w, name, hinted, now, e)
    IN IF g.cast = 0
       THEN [w |-> g.w, result |-> NotFound(name)]
       ELSE IF e.op = "raise"
       THEN [w |-> Caught(Raised(g.w, "status")),
             result |-> Fail("exception", "device error", "status")]
       ELSE [w |-> Called(g.w, "status"),
             result |-> [Ok("ping") EXCEPT !.ip = g.host,
                                           !.volume = e.status]]

\* lines 171-186. Only cast.cast_info is read: no device call of its own.
connect_speaker(w, name, hinted, now, e) ==
    LET g == GetOrCreateConnection(w, name, hinted, now, e)
    IN IF g.cast = 0
       THEN [w |-> g.w, result |-> NotFound(name)]
       ELSE [w |-> g.w,
             result |-> [Ok("connect") EXCEPT !.speaker = name,
                                              !.ip = g.host]]

\* lines 201-228: the device calls of a disconnect, in order: quit_app, the
\* chime (start_app, then quit_app unless start_app raised), cast.disconnect.
\* Each is in its own try block, so a call that raises stops nothing.
DisconnectCallsStopAtError(w, e) ==
    CASE e.quit1 = "raise" -> Raised(w, "quit_app")
      [] e.start = "raise" -> Raised(Called(w, "quit_app"), "start_app")
      [] e.quit2 = "raise" ->
           Raised(Called(Called(w, "quit_app"), "start_app"), "quit_app")
      [] OTHER ->
           LET c == Called(Called(Called(w, "quit_app"), "start_app"), "quit_app")
           IN IF e.hangup = "ok" THEN Called(c, "disconnect")
              ELSE Raised(c, "disconnect")

\* lines 201-223: quit_app; then start_app and quit_app for the chime, under
\* one try; then cast.disconnect. Each try block swallows what is raised.
DisconnectCalls(w, e) ==
    LET a == IF e.quit1 = "ok" THEN Called(w, "quit_app") ELSE Raised(w, "quit_app")
        b == IF e.start = "ok" THEN Called(a, "start_app") ELSE Raised(a, "start_app")
        c == IF e.start = "ok"
             THEN IF e.quit2 = "ok" THEN Called(b, "quit_app")
                                    ELSE Raised(b, "quit_app")
             ELSE b
    IN IF e.hangup = "ok" THEN Called(c, "disconnect") ELSE Raised(c, "disconnect")

\* disconnect_speaker with connections.clear() in place of the del of
\* line 229
disconnect_speakerClearsAll(w, name, e) ==
    IF Has(w.connections, name)
    THEN LET conn == w.connections[name]
             d == DisconnectCalls(w, e)
         IN [w |-> [d EXCEPT !.connections = EmptyRegistry,
                             !.browsers = IF e.stop = "ok" THEN @ \ {conn.browser}
                                          ELSE @,
                             !.trace.raised = @ \/ e.stop = "raise"],
             result |-> Ok("disconnected")]
    ELSE [w |-> w, result |-> OkSaying("not connected", "Not connected")]

\* lines 189-236
disconnect_speaker(w, name, e) ==
    IF Has(w.connections, name)
    THEN LET conn == w.connections[name]
             d == DisconnectCalls(w, e)
         IN [w |-> [d EXCEPT !.connections = Del(@, name),
                             !.browsers = IF e.stop = "ok" THEN @ \ {conn.browser}
                                          ELSE @,
                             !.trace.raised = @ \/ e.stop = "raise"],
             result |-> Ok("disconnected")]
    ELSE [w |-> w, result |-> OkSaying("not connected", "Not connected")]

\* get_status that forgets the entries it has listed
get_statusDropsListed(w, now) ==
    LET active == {[name |-> n, ip |-> w.connections[n].ip,
                    connected_at |-> w.connections[n].connected_at,
                    age_seconds |-> now - w.connections[n].connected_at] :
                   n \in DOMAIN w.connections}
    IN [w |-> [w EXCEPT !.connections = EmptyRegistry],
        result |-> [Ok("status") EXCEPT !.listing = active,
                                        !.count = Cardinality(active)]]

\* lines 239-256
get_status(w, now) ==
    LET active == {[name |-> n, ip |-> w.connections[n].ip,
                    connected_at |-> w.connections[n].connected_at,
                    age_seconds |-> now - w.connections[n].connected_at] :
                   n \in DOMAIN w.connections}
    IN [w |-> w,
        result |-> [Ok("status") EXCEPT !.listing = active,
                                        !.count = Cardinality(active)]]

\* cleanup_all without the try blocks of lines 264-272: a disconnect or a
\* stop_discovery that raises ends the loop, and the clear of line 273 is
\* never reached
cleanup_allStopsAtError(w, e) ==
    LET names == DOMAIN w.connections
        stopped == {w.connections[n].browser : n \in names \ e.badStop}
    IN IF (e.badHangup \cup e.badStop) # {}
       THEN [w EXCEPT !.trace.raised = TRUE]
       ELSE [w EXCEPT !.connections = EmptyRegistry, !.browsers = @ \ stopped]

\* lines 259-274: every entry is hung up and its browser stopped (errors
\* ignored), then the dict is cleared
cleanup_all(w, e) ==
    LET names == DOMAIN w.connections
        stopped == {w.connections[n].browser : n \in names \ e.badStop}
    IN [w EXCEPT !.connections = EmptyRegistry,
                 !.browsers = @ \ stopped,
                 !.trace.raised = @ \/ (e.badHangup \cup e.badStop) # {}]

\* process_command that takes a line without a cmd for a status query
process_commandDefaultsToStatus(w, line, now, e) ==
    CASE line.cmd = "set-volume" ->
           set_volume(w, line.speaker,
                      IF line.volume.given THEN line.volume
                      ELSE [given |-> FALSE, num |-> TRUE, v |-> DefaultVolume],
                      line.ip, now, e)
      [] line.cmd = "get-volume" -> get_volume(w, line.speaker, line.ip, now, e)
      [] line.cmd = "ping" -> ping_speaker(w, line.speaker, line.ip, now, e)
      [] line.cmd = "connect" -> connect_speaker(w, line.speaker, line.ip, now, e)
      [] line.cmd = "disconnect" -> disconnect_speaker(w, line.speaker, e)
      [] line.cmd \in {"status", ""} -> get_status(w, now)
      [] line.cmd = "quit" ->
           [w |-> cleanup_all(w, e),
            result |-> OkSaying("quit", "Daemon shutting down")]
      [] OTHER -> [w |-> w, result |-> Fail("unknown", "Unknown command", line.cmd)]

\* lines 277-307
process_command(w, line, now, e) ==
    CASE line.cmd = "set-volume" ->
           set_volume(w, line.speaker,
                      IF line.volume.given THEN line.volume
                      ELSE [given |-> FALSE, num |-> TRUE, v |-> DefaultVolume],
                      line.ip, now, e)
      [] line.cmd = "get-volume" -> get_volume(w, line.speaker, line.ip, now, e)
      [] line.cmd = "ping" -> ping_speaker(w, line.speaker, line.ip, now, e)
      [] line.cmd = "connect" -> connect_speaker(w, line.speaker, line.ip, now, e)
      [] line.cmd = "disconnect" -> disconnect_speaker(w, line.speaker, e)
      [] line.cmd = "status" -> get_status(w, now)
      [] line.cmd = "quit" ->
           [w |-> cleanup_all(w, e),
            result |-> OkSaying("quit", "Daemon shutting down")]
      [] OTHER -> [w |-> w, result |-> Fail("unknown", "Unknown command", line.cmd)]

-----------------------------------------------------------------------------
(* The outcomes that can matter to a line, given the registry *)

\* what discovery and the connection wait can do
CreateEnvs ==
    {[CalmEnv EXCEPT !.disc = "raise"],
     [CalmEnv EXCEPT !.disc = "empty"],
     [CalmEnv EXCEPT !.disc = "empty", !.stopNew = "raise"],
     [CalmEnv EXCEPT !.wait = "raise"]}
    \cup {[CalmEnv EXCEPT !.host = h] : h \in Hosts}

\* a cached handle is probed; a dead one is evicted and creation follows
LookupEnvs(cached) ==
    IF cached
    THEN {CalmEnv} \cup {[c EXCEPT !.probe = "raise", !.stopOld = s] :
                            c \in CreateEnvs, s \in Outcome}
    ELSE CreateEnvs

Obtains(cached, e) ==
    (cached /\ e.probe = "ok") \/ (e.disc = "found" /\ e.wait = "ok")

\* the verb's own device call happens only on a handle
VerbEnvs(cached, ops, statuses) ==
    {x \in {[c EXCEPT !.op = o, !.status = st] :
               c \in LookupEnvs(cached), o \in ops, st \in statuses} :
        Obtains(cached, x) \/ (x.op = "ok" /\ x.status = CalmEnv.status)}

DisconnectEnvs(cached) ==
    IF cached
    THEN {x \in {[CalmEnv EXCEPT !.quit1 = a, !.start = b, !.quit2 = c,
                                 !.hangup = d, !.stop = f] :
                    a \in Outcome, b \in Outcome, c \in Outcome, d \in Outcome,
                    f \in Outcome} :
             x.start = "raise" => x.quit2 = "ok"}
    ELSE {CalmEnv}

CleanupEnvs(conns) ==
    {[CalmEnv EXCEPT !.badHangup = a, !.badStop = b] :
        a \in SUBSET DOMAIN conns, b \in SUBSET DOMAIN conns}

EnvsFor(line, conns) ==
    LET cached == Has(conns, line.speaker)
    IN CASE line.kind # "object" -> {CalmEnv}
         [] line.cmd = "set-volume" ->
              IF line.volume.num THEN VerbEnvs(cached, Outcome, {CalmEnv.status})
              ELSE {CalmEnv}
         [] line.cmd \in {"get-volume", "ping"} ->
              VerbEnvs(cached, Outcome, StatusVolumes)
         [] line.cmd = "connect" -> VerbEnvs(cached, {"ok"}, {CalmEnv.status})
         [] line.cmd = "disconnect" -> DisconnectEnvs(cached)
         [] line.cmd = "quit" -> CleanupEnvs(conns)
         [] OTHER -> {CalmEnv}

-----------------------------------------------------------------------------
(* cast-helper.py: arguments, messages and results *)

\* stream_name: the default and one of the stereo split
StreamNames == {"pcaudio", "left"}

\* speaker_ip and https_url are given (TRUE) or not
NoCall == [fn |-> "none", speaker_name |-> "", speaker_ip |-> FALSE,
           https_url |-> FALSE, stream_name |-> ""]

Calls == [fn : {"webrtc_launch", "webrtc_proxy_connect"}, speaker_name : Names,
          speaker_ip : BOOLEAN, https_url : BOOLEAN, stream_name : StreamNames]

\* A text is a string. Unencodable is a text with a lone surrogate, which
\* json.loads makes of the escape \ud800 and which has no UTF-8 form.
Unencodable == "v=0 lone surrogate"

\* What the device can send on the namespace: an offer, an offer whose sdp
\* cannot be encoded, an offer without sdp, a message of another type. A
\* dict is a record with the dict's keys.
Offer == [type |-> "offer", sdp |-> "v=0 offer"]
DeviceMessages ==
    {Offer, [type |-> "offer", sdp |-> Unencodable], [type |-> "offer"],
     [type |-> "error"]}
NoMessage == [none |-> TRUE]

\* What the POST to the negotiation endpoint can end in: a 2xx reply with
\* the answer as body, HTTPError (code, body), URLError (reason), or another
\* exception (a read timeout). The body of a reply is bytes: [utf8 |-> t]
\* are the UTF-8 bytes of the text t, [raw |-> b] bytes that are no UTF-8.
HttpReplies == {[kind |-> "reply", code |-> 201, body |-> [utf8 |-> "v=0 answer"]],
                [kind |-> "reply", code |-> 201, body |-> [raw |-> "ff"]],
                [kind |-> "HTTPError", code |-> 404, body |-> "no stream"],
                [kind |-> "HTTPError", code |-> 500, body |-> "internal"],
                [kind |-> "URLError", reason |-> "refused"],
                [kind |-> "timeout"]}
\* the POST made (stream of the path, body) and how it ended
NoHttp == [posted |-> [stream |-> "", body |-> [utf8 |-> ""]],
           reply |-> [kind |-> "none"]]

\* A helper function's return value is a record with the keys of the dict
\* returned; an error text is the tuple of its fixed part and what is
\* formatted into it.
NoReturn == [returned |-> FALSE]
Returned(r) == "success" \in DOMAIN r

\* lines 707-708, 880-884: except Exception as e, with str(e) as the text
Excepted == [success |-> FALSE, error |-> <<"exception">>]

NoSeen == [session |-> FALSE, data |-> FALSE, errors |-> 0]

\* cast.start_app has not been called
NotStarted == [type |-> "not called", text |-> ""]

\* get_group_members: no device (None), and no member ids
NoDevice == [name |-> "", host |-> "", uuid |-> "", cast_type |-> "none",
             model_name |-> ""]

NoMembers == [form |-> "none", ids |-> {}]

\* cast-helper.py as a script: no verb
NoVerb == [verb |-> "", speaker_name |-> "", port |-> 0, volume |-> 0,
           speaker_ip |-> FALSE]

\* the threads that call the daemon's handlers
Threads == {1, 2}

-----------------------------------------------------------------------------
(* main *)

\* HandleLine with `except Exception` placed above `except
\* json.JSONDecodeError`: a line that is not JSON gets the general answer
HandleLineGeneralFirst(w, line, now, e) ==
    CASE line.kind \in {"badjson", "nonobject"} ->
           [w |-> [w EXCEPT !.trace.raised = TRUE, !.trace.caught = "main"],
            result |-> Fail("exception", "no attribute", "get")]
      [] OTHER -> process_command(w, line, now, e)

\* lines 321-339 without the print: json.loads, then process_command. A
\* line that is not JSON raises JSONDecodeError; one that is JSON but no
\* object raises at cmd_data.get (line 323); both end in main's except
\* clauses.
HandleLine(w, line, now, e) ==
    CASE line.kind = "badjson" ->
           [w |-> [w EXCEPT !.trace.raised = TRUE, !.trace.caught = "main"],
            result |-> Fail("invalid json", "Invalid JSON", "detail")]
      [] line.kind = "nonobject" ->
           [w |-> [w EXCEPT !.trace.raised = TRUE, !.trace.caught = "main"],
            result |-> Fail("exception", "no attribute", "get")]
      [] OTHER -> process_command(w, line, now, e)

\* Emit with the print of the except clauses (lines 336, 339) left out
EmitOnlySuccess(o, line, res) ==
    IF res.success THEN Append(o, [line |-> line.seq, success |-> TRUE]) ELSE o

\* lines 328, 336, 339: print(json.dumps(...), flush=True). Of a printed
\* response, out keeps the line it answers and its success field; the whole
\* response is `result` in the state that prints it.
Emit(o, line, res) == Append(o, [line |-> line.seq, success |-> res.success])

\* AfterPrint without the break of line 332
AfterPrintNoBreak(line) == "read"

\* lines 331-332: break after a quit, else the next iteration
AfterPrint(line) ==
    IF line.kind = "object" /\ line.cmd = "quit" THEN "finally" ELSE "read"

\* lines 317-319: strip; an empty line is skipped
Skipped(line) == line.kind = "blank"

NoBefore == [connections |-> EmptyRegistry, browsers |-> {}, nextId |-> 1,
             nDiscovery |-> 0]

Init ==
    /\ connections = EmptyRegistry
    /\ browsers = {}
    /\ nextId = 1
    /\ nDiscovery = 0
    /\ pc = "read"
    /\ nlines = 0
    /\ nonblank = 0
    /\ cur = NoLine
    /\ result = NoResult
    /\ before = NoBefore
    /\ env = CalmEnv
    /\ trace = NoTrace
    /\ out = <<>>
    /\ call = NoCall
    /\ hpc = "idle"
    /\ steps = <<>>
    /\ browser = 0
    /\ running = {}
    /\ started = NotStarted
    /\ poll = 0
    /\ ready = FALSE
    /\ connected = FALSE
    /\ data_flowing = FALSE
    /\ seen = NoSeen
    /\ messages = <<>>
    /\ message_event = FALSE
    /\ rx = NoMessage
    /\ arrivals = <<>>
    /\ waits = 0
    /\ waited = 0
    /\ offer_response = NoMessage
    /\ http = NoHttp
    /\ sent = <<>>
    /\ ret = NoReturn
    /\ mpc = "none"
    /\ speaker_names = <<>>
    /\ speaker_ips = <<>>
    /\ idx = 0
    /\ launched = <<>>
    /\ failed = <<>>
    /\ attempts = <<>>
    /\ mret = NoReturn
    /\ gpc = "idle"
    /\ group_name = ""
    /\ chromecasts = <<>>
    /\ gbrowser = "none"
    /\ group_cast = NoDevice
    /\ member_uuids = NoMembers
    /\ queries = 0
    /\ gret = NoReturn
    /\ tcall = [speaker_name |-> "", speaker_ip |-> FALSE, receiver_id |-> ""]
    /\ tpc = "idle"
    /\ lpc = "none"
    /\ tbrowser = "none"
    /\ launch_success = FALSE
    /\ launch_error = ""
    /\ joined = "no"
    /\ tret = NoReturn
    /\ handlers = [t \in Threads |-> [fn |-> "none", name |-> "", at |-> "idle"]]
    /\ lock = 0
    /\ registry = EmptyRegistry
    /\ fault = FALSE
    /\ wcall = NoVerb
    /\ wpc = "idle"
    /\ wrunning = {}
    /\ tries = <<>>
    /\ wdevice = NoStatus
    /\ wret = NoReturn

\* line 316: the next line of sys.stdin
ReadLine ==
    /\ pc = "read"
    /\ nlines < MaxLines
    /\ \E l \in Lines :
         /\ nlines' = nlines + 1
         /\ IF Skipped(l)
            THEN UNCHANGED <<pc, nonblank, cur>>
            ELSE /\ pc' = "process"
                 /\ nonblank' = nonblank + 1
                 /\ cur' = [l EXCEPT !.seq = nonblank + 1]
    /\ UNCHANGED <<connections, browsers, nextId, nDiscovery, result, before,
                   env, trace, out>>
    /\ UNCHANGED hvars

\* line 316: sys.stdin is at its end
EndOfInput ==
    /\ pc = "read"
    /\ pc' = "finally"
    /\ UNCHANGED <<connections, browsers, nextId, nDiscovery, nlines, nonblank,
                   cur, result, before, env, trace, out>>
    /\ UNCHANGED hvars

\* lines 322-325 (and the except clauses of 334-339 up to the print)
ProcessLine ==
    /\ pc = "process"
    /\ \E e \in EnvsFor(cur, connections) :
         LET r == HandleLine(World, cur, nlines, e)
         IN /\ connections' = r.w.connections
            /\ browsers' = r.w.browsers
            /\ nextId' = r.w.nextId
            /\ nDiscovery' = r.w.nDiscovery
            /\ trace' = r.w.trace
            /\ result' = r.result
            /\ env' = e
    /\ before' = [connections |-> connections, browsers |-> browsers,
                  nextId |-> nextId, nDiscovery |-> nDiscovery]
    /\ pc' = "write"
    /\ UNCHANGED <<nlines, nonblank, cur, out>>
    /\ UNCHANGED hvars

\* lines 328-332, 336, 339
WriteResponse ==
    /\ pc = "write"
    /\ out' = Emit(out, cur, result)
    /\ pc' = AfterPrint(cur)
    /\ cur' = NoLine
    /\ result' = NoResult
    /\ before' = NoBefore
    /\ env' = CalmEnv
    /\ trace' = NoTrace
    /\ UNCHANGED <<connections, browsers, nextId, nDiscovery, nlines, nonblank>>
    /\ UNCHANGED hvars

\* lines 343-345: the finally clause
Finally ==
    /\ pc = "finally"
    /\ \E e \in CleanupEnvs(connections) :
         LET w == cleanup_all(World, e)
         IN /\ connections' = w.connections
            /\ browsers' = w.browsers
            /\ trace' = w.trace
            /\ env' = e
    /\ before' = [connections |-> connections, browsers |-> browsers,
                  nextId |-> nextId, nDiscovery |-> nDiscovery]
    /\ pc' = "stopped"
    /\ UNCHANGED <<nextId, nDiscovery, nlines, nonblank, cur, result, out>>
    /\ UNCHANGED hvars

Next == ReadLine \/ EndOfInput \/ ProcessLine \/ WriteResponse \/ Finally

Spec == Init /\ [][Next]_vars

\* The handler of a line runs to its end and its response is printed: main
\* is one thread that nothing preempts for good, and every call it makes
\* into pychromecast returns or raises (get_listed_chromecasts after its
\* timeout of 3 or 10 seconds, cast.wait after 5). Whether another line
\* comes is up to the sender: no fairness for ReadLine and EndOfInput.
FairSpec == Spec /\ WF_vars(ProcessLine) /\ WF_vars(WriteResponse)

-----------------------------------------------------------------------------
(* cast-helper.py: finding the device and starting the receiver *)

Finish(r) == /\ ret' = r
             /\ hpc' = "done"

\* one call of a helper function from the command line (lines 1947, 1958)
Invoke ==
    /\ hpc = "idle"
    /\ mpc = "none"
    /\ \E c \in Calls : call' = c
    /\ hpc' = "discover"
    /\ UNCHANGED <<started, steps, browser, running, poll, ready, connected,
                   data_flowing, seen, messages, message_event, rx, arrivals,
                   waits, waited, offer_response, http, sent, ret>>
    /\ UNCHANGED <<dvars, mvars, xvars>>

\* What get_listed_chromecasts can do: "found", "empty", or it raises. The
\* full scan is only of interest when it is reached.
Scans == {"found", "empty", "raise"}
ScanOutcomes(hinted) ==
    IF hinted
    THEN {[hint |-> "found", full |-> "none"], [hint |-> "raise", full |-> "none"]}
         \cup {[hint |-> "empty", full |-> f] : f \in Scans}
    ELSE {[hint |-> "none", full |-> f] : f \in Scans}

\* lines 504-541 and 736-765: with a hint, a scan of the hinted host
\* (timeout 5); when that finds nothing its browser is stopped and a full
\* scan follows (timeout 10). Without a hint, the full scan. A scan that
\* finds nothing has its browser stopped. id numbers the browsers: id + 1 is
\* the first scan's, id + 2 the second's. Yields the scans made, the outcome
\* of the last, the local `browser` and the browsers left running.
find_device(hinted, e, id) ==
    IF hinted /\ e.hint = "empty"
    THEN [scans |-> <<"scan hinted", "scan full">>,
          outcome |-> e.full,
          browser |-> IF e.full = "raise" THEN id + 1 ELSE id + 2,
          started |-> IF e.full = "found" THEN {id + 2} ELSE {}]
    ELSE LET first == IF hinted THEN e.hint ELSE e.full
         IN [scans |-> <<IF hinted THEN "scan hinted" ELSE "scan full">>,
             outcome |-> first,
             browser |-> IF first = "raise" THEN 0 ELSE id + 1,
             started |-> IF first = "found" THEN {id + 1} ELSE {}]

\* lines 526, 539, 754, 764
SpeakerNotFound(name) == [success |-> FALSE, error |-> <<"Speaker not found", name>>]

\* lines 502-541, 733-765
Discover ==
    /\ hpc = "discover"
    /\ \E e \in ScanOutcomes(call.speaker_ip) :
         LET d == find_device(call.speaker_ip, e, 2 * idx)
         IN /\ steps' = steps \o d.scans
            /\ browser' = d.browser
            /\ running' = running \cup d.started
            /\ CASE d.outcome = "found" -> hpc' = "wait" /\ ret' = ret
                 [] d.outcome = "empty" -> Finish(SpeakerNotFound(call.speaker_name))
                 [] OTHER -> Finish(Excepted)
    /\ UNCHANGED <<call, started, poll, ready, connected, data_flowing, seen,
                   messages, message_event, rx, arrivals, waits, waited,
                   offer_response, http, sent>>
    /\ UNCHANGED <<dvars, mvars, xvars>>

\* lines 545-549: webrtc_launch stops the browser once cast.wait is over;
\* lines 769: webrtc_proxy_connect keeps it
StoppedAfterWait(fn, run, b) == IF fn = "webrtc_launch" THEN run \ {b} ELSE run

\* lines 543-549, 767-769: cast.wait(timeout=10) returns or raises
Wait ==
    /\ hpc = "wait"
    /\ steps' = Append(steps, "wait")
    /\ \E o \in Outcome :
         IF o = "ok"
         THEN /\ running' = StoppedAfterWait(call.fn, running, browser)
              /\ hpc' = "launch"
              /\ ret' = ret
         ELSE /\ Finish(Excepted)
              /\ running' = running
    /\ UNCHANGED <<call, started, browser, poll, ready, connected, data_flowing,
                   seen, messages, message_event, rx, arrivals, waits, waited,
                   offer_response, http, sent>>
    /\ UNCHANGED <<dvars, mvars, xvars>>

\* What cast.start_app can raise: the type of the exception and its text.
\* The device that cannot run a custom receiver answers the launch request
\* with a failure (RequestFailed, "Failed to execute start app ...").
StartErrors == {[type |-> "RequestFailed", text |-> "Failed to execute start app"],
                [type |-> "RequestTimeout", text |-> "Execution of start app timed out"],
                [type |-> "PyChromecastError", text |-> "Failed to execute start app"]}
StartOutcomes == {[type |-> "none", text |-> ""]} \cup StartErrors

\* lines 575, 790: "RequestFailed" in error_type or "Failed to execute start
\* app" in error_msg
Unsupported(err) ==
    err.type = "RequestFailed" \/ err.text = "Failed to execute start app"

\* lines 568-589 (webrtc_launch) and 785-797 (webrtc_proxy_connect): the
\* answer to a start_app that raised
start_failure(fn, err) ==
    IF Unsupported(err)
    THEN [success |-> FALSE, error |-> <<err.text>>,
          error_code |-> "CUSTOM_RECEIVER_NOT_SUPPORTED",
          fallback_available |-> TRUE]
    ELSE IF fn = "webrtc_launch"
         THEN [success |-> FALSE, error |-> <<err.text>>, error_code |-> "UNKNOWN"]
         ELSE [success |-> FALSE, error |-> <<err.text>>]

\* lines 698-705: webrtc_launch without a URL
LaunchedWithoutUrl ==
    [success |-> TRUE, mode |-> "webrtc", url |-> "none",
     message |-> "Receiver launched with WebRTC URL", verified |-> FALSE,
     warning |-> "no_url_provided"]

\* AfterStart without the readiness wait
AfterStartSendsAtOnce(c) ==
    IF c.fn = "webrtc_launch" /\ ~c.https_url THEN "done" ELSE "send"

\* lines 592, 698: webrtc_launch goes on only with a URL; lines 800-804:
\* webrtc_proxy_connect registers its controller and goes on
AfterStart(c) ==
    IF c.fn = "webrtc_launch" /\ ~c.https_url THEN "done" ELSE "ready"

\* LaunchSteps with quit_app outside the inner try: when it raises,
\* start_app is not called
LaunchStepsQuitFatal(q) ==
    IF q = "ok" THEN <<"quit_app", "start_app">> ELSE <<"quit_app raised">>

\* lines 559-565, 776-782: quit_app in a try of its own whose except clause
\* is `pass`; start_app is called whatever quit_app did
LaunchSteps(q) == <<IF q = "ok" THEN "quit_app" ELSE "quit_app raised", "start_app">>

\* lines 556-589, 773-797: quit_app (its failure ignored), then start_app.
\* webrtc_proxy_connect stops its browser when start_app raised (788-789).
Launch ==
    /\ hpc = "launch"
    /\ \E q \in Outcome, st \in StartOutcomes :
         /\ steps' = steps \o LaunchSteps(q)
         /\ IF st.type = "none"
            THEN /\ hpc' = AfterStart(call)
                 /\ ret' = IF AfterStart(call) = "done" THEN LaunchedWithoutUrl
                           ELSE ret
                 /\ running' = running
            ELSE /\ Finish(start_failure(call.fn, st))
                 /\ running' = running \ {browser}
         /\ started' = st
    /\ UNCHANGED <<call, browser, poll, ready, connected, data_flowing, seen,
                   messages, message_event, rx, arrivals, waits, waited,
                   offer_response, http, sent>>
    /\ UNCHANGED <<dvars, mvars, xvars>>

-----------------------------------------------------------------------------
(* cast-helper.py: the readiness wait *)

\* lines 596, 804: for i in range(10)
ReadyPolls == 10

\* what a status poll can show: the receiver's app id, another (or no
\* status), or update_status raises
StatusPolls == {"ready", "loading", "raise"}

\* ReadyLoopEnds of a loop that goes on until the receiver's app id shows
ReadyLoopEndsWhenReady(n, shown) == shown = "ready"

\* lines 596-602, 804-810: the loop ends at the poll that shows the
\* receiver's app id and after the last poll
ReadyLoopEnds(n, shown) == shown = "ready" \/ n = ReadyPolls

\* lines 596-602, 804-810: one iteration: update_status, sleep, look at
\* cast.status. An update_status that raises ends the function in its
\* outer except clause.
PollReady ==
    /\ hpc = "ready"
    /\ poll < ReadyPolls
    /\ poll' = poll + 1
    /\ \E shown \in StatusPolls :
         /\ ready' = (shown = "ready")
         /\ IF shown = "raise"
            THEN /\ Finish(Excepted)
                 /\ steps' = Append(steps, "readiness")
            ELSE /\ ret' = ret
                 /\ hpc' = IF ReadyLoopEnds(poll + 1, shown) THEN "send" ELSE "ready"
                 /\ steps' = IF ReadyLoopEnds(poll + 1, shown)
                             THEN Append(steps, "readiness") ELSE steps
    /\ UNCHANGED <<call, started, browser, running, connected, data_flowing,
                   seen, messages, message_event, rx, arrivals, waits, waited,
                   offer_response, http, sent>>
    /\ UNCHANGED <<dvars, mvars, xvars>>

-----------------------------------------------------------------------------
(* cast-helper.py: webrtc_launch with a URL: the connect message and the
   verification *)

\* lines 623-627
ConnectMessage(c) == [type |-> "connect", url |-> "https url", stream |-> c.stream_name]

\* lines 619-629: send_message on the controller registered at line 620
SendConnect ==
    /\ hpc = "send"
    /\ call.fn = "webrtc_launch"
    /\ steps' = Append(steps, "connect")
    /\ \E o \in Outcome :
         IF o = "ok"
         THEN /\ sent' = Append(sent, ConnectMessage(call))
              /\ hpc' = "verify"
              /\ ret' = ret
         ELSE /\ Finish(Excepted)
              /\ sent' = sent
    /\ poll' = 0
    /\ ready' = FALSE
    /\ UNCHANGED <<call, started, browser, running, connected, data_flowing,
                   seen, messages, message_event, rx, arrivals, waits, waited,
                   offer_response, http>>
    /\ UNCHANGED <<dvars, mvars, xvars>>

\* line 648: for attempt in range(4)
VerifyPolls == 4

\* The paths sessions can be on: the streams, and one whose name holds a
\* stream's name. line 658 takes a session for one of the stream when the
\* stream's name occurs in its path (`stream_name in path`).
Paths == StreamNames \cup {"pcaudio2"}
OccursIn(name, path) == path = name \/ (name = "pcaudio" /\ path = "pcaudio2")

Sessions == [path : Paths, bytesSent : {0, 1200}]

\* What GET /v3/webrtcsessions/list can give: a list of sessions, or the
\* request or the decoding of its reply raises
SessionReplies ==
    {[ok |-> FALSE, items |-> <<>>], [ok |-> TRUE, items |-> <<>>]}
    \cup {[ok |-> TRUE, items |-> <<a>>] : a \in Sessions}
    \cup {[ok |-> TRUE, items |-> <<a, b>>] : a \in Sessions, b \in Sessions}

RECURSIVE look_for_session(_, _, _, _)
\* lines 657-664: the loop over the sessions of one reply, which breaks at
\* the first session of the stream that has sent bytes
look_for_session(items, name, conn, flow) ==
    IF items = <<>> THEN [connected |-> conn, data_flowing |-> flow]
    ELSE LET session == Head(items)
         IN IF OccursIn(name, session.path)
            THEN IF session.bytesSent > 0
                 THEN [connected |-> TRUE, data_flowing |-> TRUE]
                 ELSE look_for_session(Tail(items), name, TRUE, flow)
            ELSE look_for_session(Tail(items), name, conn, flow)

\* poll_sessions that starts every poll from connected = False
poll_sessionsForgets(conn, flow, reply, name) ==
    IF reply.ok THEN look_for_session(reply.items, name, FALSE, flow)
                ELSE [connected |-> FALSE, data_flowing |-> flow]

\* lines 649-674: one poll; a poll that raises changes neither flag
poll_sessions(conn, flow, reply, name) ==
    IF reply.ok THEN look_for_session(reply.items, name, conn, flow)
                ELSE [connected |-> conn, data_flowing |-> flow]

\* VerifyLoopEnds of a loop that goes on until data flows
VerifyLoopEndsWhenFlowing(n, flow) == flow

\* lines 648, 666-667: the loop ends when data flows and after the last poll
VerifyLoopEnds(n, flow) == flow \/ n = VerifyPolls

\* json.dumps prints None as null
Null == "null"

\* lines 688-696
LaunchedWithUrl(conn, flow) ==
    [success |-> TRUE, mode |-> "webrtc", url |-> "https url",
     message |-> "Receiver launched with WebRTC URL", verified |-> flow,
     session_connected |-> conn,
     warning |-> IF flow THEN Null ELSE IF conn THEN "no_data" ELSE "no_session"]

\* what a reply holds for the stream, whatever the order of its sessions
Holds(reply, name) ==
    [session |-> reply.ok /\ \E k \in 1..Len(reply.items) :
                                OccursIn(name, reply.items[k].path),
     data |-> reply.ok /\ \E k \in 1..Len(reply.items) :
                             /\ OccursIn(name, reply.items[k].path)
                             /\ reply.items[k].bytesSent > 0]

\* lines 648-676: one iteration of the verification
PollSessions ==
    /\ hpc = "verify"
    /\ poll < VerifyPolls
    /\ poll' = poll + 1
    /\ \E reply \in SessionReplies :
         LET v == poll_sessions(connected, data_flowing, reply, call.stream_name)
             h == Holds(reply, call.stream_name)
         IN /\ connected' = v.connected
            /\ data_flowing' = v.data_flowing
            /\ seen' = [session |-> seen.session \/ h.session,
                        data |-> seen.data \/ h.data,
                        errors |-> seen.errors + IF reply.ok THEN 0 ELSE 1]
            /\ hpc' = IF VerifyLoopEnds(poll + 1, v.data_flowing) THEN "report"
                      ELSE "verify"
    /\ UNCHANGED <<call, started, steps, browser, running, ready, messages,
                   message_event, rx, arrivals, waits, waited, offer_response,
                   http, sent, ret>>
    /\ UNCHANGED <<dvars, mvars, xvars>>

\* lines 678-696
Report ==
    /\ hpc = "report"
    /\ steps' = Append(steps, "verify")
    /\ Finish(LaunchedWithUrl(connected, data_flowing))
    /\ UNCHANGED <<call, started, browser, running, poll, ready, connected,
                   data_flowing, seen, messages, message_event, rx, arrivals,
                   waits, waited, offer_response, http, sent>>
    /\ UNCHANGED <<dvars, mvars, xvars>>

-----------------------------------------------------------------------------
(* cast-helper.py: WebRTCController and the signaling of webrtc_proxy_connect *)

MaxMessages == 2

\* line 818: wait_for_message(timeout=15), in seconds
OfferTimeout == 15

\* lines 800-801: the controller is registered after the launch; from then
\* on the socket thread calls receive_message for every message of the
\* namespace. Messages that come once wait_for_message has returned are
\* read by nobody and are left out.
Registered ==
    call.fn = "webrtc_proxy_connect" /\ hpc \in {"ready", "send", "clear", "waiting"}

\* where webrtc_proxy_connect is: before request_offer was sent, between
\* that and the clear of line 53, in message_event.wait, or past it
Phase == CASE hpc \in {"ready", "send"} -> "early"
           [] hpc = "clear" -> "requested"
           [] hpc = "waiting" -> "waiting"
           [] OTHER -> "late"

\* lines 39-42: receive_message, up to messages.append(data)
ReceiveAppend ==
    /\ Registered
    /\ rx = NoMessage
    /\ Len(arrivals) < MaxMessages
    /\ \E m \in DeviceMessages :
         /\ messages' = Append(messages, m)
         /\ rx' = m
    /\ UNCHANGED <<call, started, hpc, steps, browser, running, poll, ready,
                   connected, data_flowing, seen, message_event, arrivals, waits,
                   waited, offer_response, http, sent, ret>>
    /\ UNCHANGED <<dvars, mvars, xvars>>

\* lines 43-44: message_event.set() and the return of receive_message: the
\* message is delivered
ReceiveSet ==
    /\ rx # NoMessage
    /\ hpc # "done"
    /\ message_event' = TRUE
    /\ arrivals' = Append(arrivals, [msg |-> rx, phase |-> Phase])
    /\ rx' = NoMessage
    /\ UNCHANGED <<call, started, hpc, steps, browser, running, poll, ready,
                   connected, data_flowing, seen, messages, waits, waited,
                   offer_response, http, sent, ret>>
    /\ UNCHANGED <<dvars, mvars, xvars>>

\* line 814
RequestOffer(c) == [type |-> "request_offer", stream |-> c.stream_name]

\* lines 812-814: send_message of request_offer
SendRequestOffer ==
    /\ hpc = "send"
    /\ call.fn = "webrtc_proxy_connect"
    /\ steps' = Append(steps, "request_offer")
    /\ \E o \in Outcome :
         IF o = "ok"
         THEN /\ sent' = Append(sent, RequestOffer(call))
              /\ hpc' = "clear"
              /\ ret' = ret
         ELSE /\ Finish(Excepted)
              /\ sent' = sent
    /\ poll' = 0
    /\ ready' = FALSE
    /\ UNCHANGED <<call, started, browser, running, connected, data_flowing,
                   seen, messages, message_event, rx, arrivals, waits, waited,
                   offer_response, http>>
    /\ UNCHANGED <<dvars, mvars, xvars>>

\* lines 53-54: message_event.clear(), and message_event.wait begins
ClearEvent ==
    /\ hpc = "clear"
    /\ message_event' = FALSE
    /\ waits' = waits + 1
    /\ waited' = 0
    /\ hpc' = "waiting"
    /\ UNCHANGED <<call, started, steps, browser, running, poll, ready,
                   connected, data_flowing, seen, messages, rx, arrivals,
                   offer_response, http, sent, ret>>
    /\ UNCHANGED <<dvars, mvars, xvars>>

\* threading.Event.wait(timeout): returns once the event is set or the
\* timeout has passed
WaitOver(event, secs) == event \/ secs = OfferTimeout

\* a second passes while message_event.wait blocks
Tick ==
    /\ hpc = "waiting"
    /\ ~WaitOver(message_event, waited)
    /\ waited' = waited + 1
    /\ UNCHANGED <<call, started, hpc, steps, browser, running, poll, ready,
                   connected, data_flowing, seen, messages, message_event, rx,
                   arrivals, waits, offer_response, http, sent, ret>>
    /\ UNCHANGED <<dvars, mvars, xvars>>

\* lines 54-57: the first message of the list when the event was set and
\* the list is not empty, else None
wait_for_message(event, msgs) ==
    IF event /\ msgs # <<>>
    THEN [response |-> Head(msgs), messages |-> Tail(msgs)]
    ELSE [response |-> NoMessage, messages |-> msgs]

\* AfterWait that calls wait_for_message again when it returned None
AfterWaitRetries(response) == IF response = NoMessage THEN "clear" ELSE "check"

\* lines 818-820: one call of wait_for_message, then the checks
AfterWait(response) == "check"

\* lines 54-57: message_event.wait returns, wait_for_message returns
WaitReturns ==
    /\ hpc = "waiting"
    /\ WaitOver(message_event, waited)
    /\ LET r == wait_for_message(message_event, messages)
       IN /\ offer_response' = r.response
          /\ messages' = r.messages
          /\ hpc' = AfterWait(r.response)
    /\ steps' = Append(steps, "wait_for_message")
    /\ UNCHANGED <<call, started, browser, running, poll, ready, connected,
                   data_flowing, seen, message_event, rx, arrivals, waits,
                   waited, http, sent, ret>>
    /\ UNCHANGED <<dvars, mvars, xvars>>

\* line 831: offer_response.get('sdp')
Sdp(response) == IF "sdp" \in DOMAIN response THEN response.sdp ELSE Null

\* check_offer without the test of lines 832-835
check_offerAnyOffer(response) ==
    CASE response = NoMessage ->
           [success |-> FALSE, error |-> <<"Timeout waiting for offer from receiver">>]
      [] response.type # "offer" ->
           [success |-> FALSE, error |-> <<"Unexpected message type", response.type>>]
      [] OTHER -> NoReturn

\* lines 820-835: the failures of the offer step; NoReturn when the offer
\* is good
check_offer(response) ==
    CASE response = NoMessage ->
           [success |-> FALSE, error |-> <<"Timeout waiting for offer from receiver">>]
      [] response.type # "offer" ->
           [success |-> FALSE, error |-> <<"Unexpected message type", response.type>>]
      [] Sdp(response) = Null ->
           [success |-> FALSE, error |-> <<"No SDP in offer">>]
      [] OTHER -> NoReturn

\* lines 820-837: a failure stops the browser and is returned
CheckOffer ==
    /\ hpc = "check"
    /\ LET r == check_offer(offer_response)
       IN IF Returned(r)
          THEN /\ Finish(r)
               /\ running' = running \ {browser}
          ELSE /\ hpc' = "post"
               /\ UNCHANGED <<ret, running>>
    /\ UNCHANGED <<call, started, steps, browser, poll, ready, connected,
                   data_flowing, seen, messages, message_event, rx, arrivals,
                   waits, waited, offer_response, http, sent>>
    /\ UNCHANGED <<dvars, mvars, xvars>>

\* utf8_encode with errors='replace': what cannot be encoded becomes "?"
utf8_encodeReplace(text) ==
    IF text = Unencodable THEN [utf8 |-> "v=0 ?"] ELSE [utf8 |-> text]

\* line 845: offer_sdp.encode('utf-8'): the bytes of the text, or
\* UnicodeEncodeError
utf8_encode(text) ==
    IF text = Unencodable THEN [raise |-> "UnicodeEncodeError"] ELSE [utf8 |-> text]

\* line 852: response.read().decode('utf-8'): the text of the bytes, or
\* UnicodeDecodeError (Null)
utf8_decode(bytes) == IF "utf8" \in DOMAIN bytes THEN bytes.utf8 ELSE Null

\* forward_offer with the except clause of URLError above that of
\* HTTPError, which is a URLError
forward_offerURLErrorFirst(reply) ==
    CASE reply.kind \in {"HTTPError", "URLError"} ->
           [success |-> FALSE,
            error |-> <<"Cannot reach MediaMTX",
                        IF reply.kind = "URLError" THEN reply.reason ELSE "HTTP Error">>]
      [] reply.kind = "timeout" -> Excepted
      [] reply.kind = "reply" /\ utf8_decode(reply.body) = Null -> Excepted
      [] OTHER -> NoReturn

\* lines 850-862: what the POST's failures are answered with; NoReturn when
\* the endpoint replied with an answer. A body that cannot be decoded and
\* a read timeout raise past the two except clauses.
forward_offer(reply) ==
    CASE reply.kind = "HTTPError" ->
           [success |-> FALSE, error |-> <<"WHEP error", reply.code, reply.body>>]
      [] reply.kind = "URLError" ->
           [success |-> FALSE, error |-> <<"Cannot reach MediaMTX", reply.reason>>]
      [] reply.kind = "timeout" -> Excepted
      [] reply.kind = "reply" /\ utf8_decode(reply.body) = Null -> Excepted
      [] OTHER -> NoReturn

\* lines 839-862: the POST of the offer's sdp, encoded, to
\* <mediamtx_url>/<stream>/whep; an sdp that cannot be encoded raises before
\* the request is made. HTTPError and URLError stop the browser; another
\* exception goes to the outer except clause, which does not.
PostOffer ==
    /\ hpc = "post"
    /\ steps' = Append(steps, "post")
    /\ \E reply \in HttpReplies :
         LET data == utf8_encode(Sdp(offer_response))
             made == "utf8" \in DOMAIN data
             r == IF made THEN forward_offer(reply) ELSE Excepted
         IN /\ http' = IF made
                       THEN [posted |-> [stream |-> call.stream_name, body |-> data],
                             reply |-> reply]
                       ELSE http
            /\ IF Returned(r)
               THEN /\ Finish(r)
                    /\ running' = IF r = Excepted THEN running
                                  ELSE running \ {browser}
               ELSE /\ hpc' = "answer"
                    /\ UNCHANGED <<ret, running>>
    /\ UNCHANGED <<call, started, browser, poll, ready, connected, data_flowing,
                   seen, messages, message_event, rx, arrivals, waits, waited,
                   offer_response, sent>>
    /\ UNCHANGED <<dvars, mvars, xvars>>

\* lines 874-878
ProxyConnected ==
    [success |-> TRUE, mode |-> "webrtc-proxy",
     message |-> "WebRTC connected via proxy signaling"]

\* Answer that drops the sdp the endpoint returned
AnswerWithoutSdp(reply) == [type |-> "answer", sdp |-> Null]

\* lines 852, 866: the answer message holds the body of the endpoint's
\* reply, decoded
Answer(reply) == [type |-> "answer", sdp |-> utf8_decode(reply.body)]

\* lines 864-878: the answer is sent, the browser stopped, success returned
SendAnswer ==
    /\ hpc = "answer"
    /\ steps' = Append(steps, "answer")
    /\ \E o \in Outcome :
         IF o = "ok"
         THEN /\ sent' = Append(sent, Answer(http.reply))
              /\ running' = running \ {browser}
              /\ Finish(ProxyConnected)
         ELSE /\ Finish(Excepted)
              /\ UNCHANGED <<sent, running>>
    /\ UNCHANGED <<call, started, browser, poll, ready, connected, data_flowing,
                   seen, messages, message_event, rx, arrivals, waits, waited,
                   offer_response, http>>
    /\ UNCHANGED <<dvars, mvars, xvars>>

-----------------------------------------------------------------------------
(* cast-helper.py: webrtc_launch_multicast *)

MaxDevices == 3

\* the lists of names: every list of at most MaxDevices names, a name more
\* than once included
NameLists == UNION {[1..n -> Names] : n \in 0..MaxDevices}

\* speaker_ips: None, or a list that can be shorter than the names and can
\* hold an empty hint
HintLists == {<<>>, <<TRUE>>, <<FALSE, TRUE>>}

\* line 1514: speaker_ips[i] if speaker_ips and i < len(speaker_ips) else None
HintFor(ips, k) == k <= Len(ips) /\ ips[k]

\* line 2019: webrtc_launch_multicast is called
InvokeMulticast ==
    /\ hpc = "idle"
    /\ mpc = "none"
    /\ \E names \in NameLists, ips \in HintLists, url \in BOOLEAN :
         /\ speaker_names' = names
         /\ speaker_ips' = ips
         /\ call' = [NoCall EXCEPT !.https_url = url, !.stream_name = "pcaudio"]
    /\ mpc' = "loop"
    /\ UNCHANGED <<started, hpc, steps, browser, running, poll, ready, connected,
                   data_flowing, seen, messages, message_event, rx, arrivals,
                   waits, waited, offer_response, http, sent, ret>>
    /\ UNCHANGED <<idx, launched, failed, attempts, mret>>
    /\ UNCHANGED <<dvars, xvars>>

\* LoopEnds with a break after the first failure
LoopEndsAtFailure(k, names, f) == k = Len(names) \/ f # <<>>

\* line 1513: for i, name in enumerate(speaker_names)
LoopEnds(k, names, f) == k = Len(names)

\* lines 1513-1516: the next name of the list; webrtc_launch is called
MulticastCall ==
    /\ mpc = "loop"
    /\ ~LoopEnds(idx, speaker_names, failed)
    /\ call' = [call EXCEPT !.fn = "webrtc_launch",
                            !.speaker_name = speaker_names[idx + 1],
                            !.speaker_ip = HintFor(speaker_ips, idx + 1)]
    /\ hpc' = "discover"
    /\ mpc' = "call"
    /\ UNCHANGED <<started, steps, browser, running, poll, ready, connected,
                   data_flowing, seen, messages, message_event, rx, arrivals,
                   waits, waited, offer_response, http, sent, ret>>
    /\ UNCHANGED <<speaker_names, speaker_ips, idx, launched, failed, attempts, mret>>
    /\ UNCHANGED <<dvars, xvars>>

\* collect that lists a failed device in both lists
collectListsAll(l, f, name, r) ==
    IF r.success
    THEN [launched |-> Append(l, name), failed |-> f]
    ELSE [launched |-> Append(l, name),
          failed |-> Append(f, [name |-> name, error |-> r.error])]

\* lines 1518-1523
collect(l, f, name, r) ==
    IF r.success
    THEN [launched |-> Append(l, name), failed |-> f]
    ELSE [launched |-> l, failed |-> Append(f, [name |-> name, error |-> r.error])]

\* lines 1516-1526: webrtc_launch has returned; its result is collected and
\* its locals are gone
MulticastCollect ==
    /\ mpc = "call"
    /\ hpc = "done"
    /\ LET c == collect(launched, failed, call.speaker_name, ret)
       IN /\ launched' = c.launched
          /\ failed' = c.failed
    /\ attempts' = Append(attempts, [name |-> call.speaker_name,
                                     hinted |-> call.speaker_ip,
                                     success |-> ret.success])
    /\ idx' = idx + 1
    /\ mpc' = "loop"
    /\ hpc' = "idle"
    /\ call' = [call EXCEPT !.fn = "none", !.speaker_name = "", !.speaker_ip = FALSE]
    /\ steps' = <<>>
    /\ browser' = 0
    /\ poll' = 0
    /\ ready' = FALSE
    /\ connected' = FALSE
    /\ data_flowing' = FALSE
    /\ seen' = NoSeen
    /\ sent' = <<>>
    /\ ret' = NoReturn
    /\ started' = NotStarted
    /\ UNCHANGED <<running, messages, message_event, rx, arrivals, waits, waited,
                   offer_response, http>>
    /\ UNCHANGED <<speaker_names, speaker_ips, mret>>
    /\ UNCHANGED <<dvars, xvars>>

\* lines 1528-1534
multicast_result(l, f, names) ==
    [success |-> Len(l) > 0, launched |-> l, failed |-> f, total |-> Len(names),
     mode |-> "multicast"]

\* lines 1528-1534: the loop is over
MulticastReturn ==
    /\ mpc = "loop"
    /\ LoopEnds(idx, speaker_names, failed)
    /\ mret' = multicast_result(launched, failed, speaker_names)
    /\ mpc' = "done"
    /\ UNCHANGED cvars
    /\ UNCHANGED <<speaker_names, speaker_ips, idx, launched, failed, attempts>>
    /\ UNCHANGED <<dvars, xvars>>

HelperNext ==
    \/ Invoke \/ Discover \/ Wait \/ Launch \/ PollReady
    \/ SendConnect \/ PollSessions \/ Report
    \/ ReceiveAppend \/ ReceiveSet \/ SendRequestOffer \/ ClearEvent \/ Tick
    \/ WaitReturns \/ CheckOffer \/ PostOffer \/ SendAnswer
    \/ InvokeMulticast \/ MulticastCall \/ MulticastCollect \/ MulticastReturn

HelperSpec == Init /\ [][HelperNext]_vars

-----------------------------------------------------------------------------
(* cast-helper.py: get_group_members *)

\* What the network can hold, in the order discovery lists it: a speaker
\* that was given the group's name, the group (at the address of its
\* leader), two speakers, one of them at the group's address, and a device
\* with a screen (cast_type 'cast') at the group's address.
Pool ==
    <<[name |-> "Study group", host |-> "10.0.0.6", uuid |-> "u0",
       cast_type |-> "audio", model_name |-> "Nest Mini"],
      [name |-> "Study group", host |-> "10.0.0.5", uuid |-> "g1",
       cast_type |-> "group", model_name |-> "Google Cast Group"],
      [name |-> "Den", host |-> "10.0.0.5", uuid |-> "u1",
       cast_type |-> "audio", model_name |-> "Nest Audio"],
      [name |-> "Kitchen", host |-> "10.0.0.6", uuid |-> "u2",
       cast_type |-> "audio", model_name |-> "Nest Mini"],
      [name |-> "Hub", host |-> "10.0.0.5", uuid |-> "u3",
       cast_type |-> "cast", model_name |-> "Nest Hub"]>>

RECURSIVE Pick(_, _)
\* the devices of the list whose place is in the set, in the order of the list
Pick(list, places) ==
    IF list = <<>> THEN <<>>
    ELSE LET rest == Pick(Tail(list), {k - 1 : k \in places \ {1}})
         IN IF 1 \in places THEN <<Head(list)>> \o rest ELSE rest

\* mz.members after update_members and two seconds: a dict keyed by uuid or
\* a list of uuids ("str" when they are strings, "UUID" when uuid.UUID
\* objects), something else, or no such attribute. u9 is a member that
\* discovery did not list.
MemberReplies ==
    {[form |-> f, ids |-> ids] :
        f \in {"str", "UUID"}, ids \in SUBSET {"u1", "u2", "u9"}}
    \cup {[form |-> "other", ids |-> {}], NoMembers}

\* get_group_members is called from the command line with the name of a
\* group or a name no group has; get_chromecasts(timeout=10) raises or
\* returns some of the devices of the network
GroupInvoke ==
    /\ gpc = "idle"
    /\ \E name \in {"Study group", "Attic"} : group_name' = name
    /\ \E o \in Outcome, places \in SUBSET (1..Len(Pool)) :
         IF o = "raise"
         THEN /\ gret' = Excepted
              /\ gpc' = "done"
              /\ UNCHANGED <<chromecasts, gbrowser>>
         ELSE /\ chromecasts' = Pick(Pool, places)
              /\ gbrowser' = "running"
              /\ gpc' = "find"
              /\ gret' = gret
    /\ UNCHANGED <<group_cast, member_uuids, queries>>
    /\ UNCHANGED <<dvars, cvars, mvars, tvars, lvars, wvars>>

RECURSIVE find_group(_, _)
\* lines 1099-1103: the first device of that name whose cast type is
\* 'group'; None when there is none
find_group(list, name) ==
    CASE list = <<>> -> NoDevice
      [] Head(list).name = name /\ Head(list).cast_type = "group" -> Head(list)
      [] OTHER -> find_group(Tail(list), name)

\* lines 1098-1107
GroupFind ==
    /\ gpc = "find"
    /\ LET found == find_group(chromecasts, group_name)
       IN /\ group_cast' = found
          /\ IF found = NoDevice
             THEN /\ gbrowser' = "stopped"
                  /\ gret' = [success |-> FALSE,
                               error |-> <<"Group not found", group_name>>]
                  /\ gpc' = "done"
             ELSE /\ gpc' = "wait"
                  /\ UNCHANGED <<gbrowser, gret>>
    /\ UNCHANGED <<group_name, chromecasts, member_uuids, queries>>
    /\ UNCHANGED <<dvars, cvars, mvars, tvars, lvars, wvars>>

\* line 1110: group_cast.wait(timeout=10) returns or raises
GroupWait ==
    /\ gpc = "wait"
    /\ \E o \in Outcome :
         IF o = "ok"
         THEN gpc' = "query" /\ gret' = gret
         ELSE gpc' = "done" /\ gret' = Excepted
    /\ UNCHANGED <<group_name, chromecasts, gbrowser, group_cast, member_uuids,
                   queries>>
    /\ UNCHANGED <<dvars, cvars, mvars, tvars, lvars, wvars>>

\* lines 1117-1135: the multizone controller is registered and asked for
\* the members; two seconds later mz.members is read and its uuids kept
\* when it is a dict or a list (lines 1125-1134)
GroupQuery ==
    /\ gpc = "query"
    /\ queries' = queries + 1
    /\ \E reply \in MemberReplies \cup {[form |-> "raise", ids |-> {}]} :
         IF reply.form = "raise"
         THEN /\ gpc' = "done"
              /\ gret' = Excepted
              /\ member_uuids' = member_uuids
         ELSE /\ member_uuids' = IF reply.form \in {"str", "UUID"}
                                  THEN reply ELSE NoMembers
              /\ gpc' = "collect"
              /\ gret' = gret
    /\ UNCHANGED <<group_name, chromecasts, gbrowser, group_cast>>
    /\ UNCHANGED <<dvars, cvars, mvars, tvars, lvars, wvars>>

\* lines 1143-1148 and 1160-1165
member_data(cc) ==
    [name |-> cc.name, ip |-> cc.host, uuid |-> cc.uuid, model |-> cc.model_name]

RECURSIVE listed_members(_, _)
\* lines 1138-1150: the devices whose str(cc.uuid) is in the list, or in
\* the list of the str of its items. A string is never equal to a UUID
\* object; str of a string is the string, str of a UUID its text.
listed_members(list, members) ==
    IF list = <<>> THEN <<>>
    ELSE LET cc == Head(list)
             rest == listed_members(Tail(list), members)
         IN IF \/ members.form = "str" /\ cc.uuid \in members.ids
               \/ cc.uuid \in members.ids
            THEN <<member_data(cc)>> \o rest
            ELSE rest

RECURSIVE shared_ip_members(_, _)
\* lines 1155-1167: the devices at the group's address whose cast type is
\* 'audio'
shared_ip_members(list, group) ==
    IF list = <<>> THEN <<>>
    ELSE LET cc == Head(list)
             rest == shared_ip_members(Tail(list), group)
         IN IF cc.host = group.host /\ cc.cast_type = "audio"
            THEN <<member_data(cc)>> \o rest
            ELSE rest

\* lines 1137-1167: the discovered devices the query listed; when there are
\* none (line 1153), the speakers at the group's address
resolve_members(list, group, members) ==
    LET listed == listed_members(list, members)
    IN IF listed # <<>> THEN listed ELSE shared_ip_members(list, group)

\* lines 1171-1177
GroupMembers(name, group, members) ==
    [success |-> TRUE, group_name |-> name, group_uuid |-> group.uuid,
     members |-> members, count |-> Len(members)]

\* lines 1137-1177
GroupCollect ==
    /\ gpc = "collect"
    /\ gbrowser' = "stopped"
    /\ gret' = GroupMembers(group_name, group_cast,
                            resolve_members(chromecasts, group_cast, member_uuids))
    /\ gpc' = "done"
    /\ UNCHANGED <<group_name, chromecasts, group_cast, member_uuids, queries>>
    /\ UNCHANGED <<dvars, cvars, mvars, tvars, lvars, wvars>>

GroupNext == GroupInvoke \/ GroupFind \/ GroupWait \/ GroupQuery \/ GroupCollect

GroupSpec == Init /\ [][GroupNext]_vars

-----------------------------------------------------------------------------
(* cast-helper.py: hls_cast_to_tv *)

VISUAL_APP_ID == "FCAA4619"

\* line 2030: hls_cast_to_tv is called, with or without the address of the
\* device; lines 1323-1325: the receiver is the visual one unless app_id
\* is given (here the default media receiver, CC1AD845)
HlsInvoke ==
    /\ tpc = "idle"
    /\ \E h \in BOOLEAN, r \in {VISUAL_APP_ID, "CC1AD845"} :
         tcall' = [speaker_name |-> "Shield", speaker_ip |-> h, receiver_id |-> r]
    /\ tpc' = "discover"
    /\ UNCHANGED <<lpc, tbrowser, launch_success, launch_error, joined, tret>>
    /\ UNCHANGED <<dvars, cvars, mvars, gvars, lvars, wvars>>

\* lines 1329-1358: the hinted scan (timeout 5) and the full scan (timeout
\* 10), as in webrtc_launch; lines 1347, 1357: no device
HlsDiscover ==
    /\ tpc = "discover"
    /\ \E e \in ScanOutcomes(tcall.speaker_ip) :
         LET f == find_device(tcall.speaker_ip, e, 0)
         IN CASE f.outcome = "found" ->
                   /\ tpc' = "wait"
                   /\ tbrowser' = "running"
                   /\ tret' = tret
              [] f.outcome = "empty" ->
                   /\ tpc' = "done"
                   /\ tbrowser' = "stopped"
                   /\ tret' = [success |-> FALSE,
                                error |-> <<"Device not found", tcall.speaker_name>>]
              [] OTHER ->
                   /\ tpc' = "done"
                   /\ tbrowser' = IF f.browser = 0 THEN "none" ELSE "stopped"
                   /\ tret' = Excepted
    /\ UNCHANGED <<tcall, lpc, launch_success, launch_error, joined>>
    /\ UNCHANGED <<dvars, cvars, mvars, gvars, lvars, wvars>>

\* lines 1360-1365: cast.wait(timeout=30) returns or raises
HlsWait ==
    /\ tpc = "wait"
    /\ \E o \in Outcome :
         IF o = "ok"
         THEN tpc' = "spawn" /\ tret' = tret
         ELSE tpc' = "done" /\ tret' = Excepted
    /\ UNCHANGED <<tcall, lpc, tbrowser, launch_success, launch_error, joined>>
    /\ UNCHANGED <<dvars, cvars, mvars, gvars, lvars, wvars>>

\* A position of the caller or of the thread that names a call on the
\* handle (quit_app, start_app, play_media, block_until_active) is held
\* while the call runs: the step into the position makes the call, the step
\* out of it is its return.

\* lines 1396-1398: launch_thread is started and calls cast.quit_app (line
\* 1383); the caller calls launch_thread.join(timeout=35)
HlsSpawn ==
    /\ tpc = "spawn"
    /\ lpc' = "quit_app"
    /\ tpc' = "join"
    /\ UNCHANGED <<tcall, tbrowser, launch_success, launch_error, joined, tret>>
    /\ UNCHANGED <<dvars, cvars, mvars, gvars, lvars, wvars>>

\* lines 1382-1388: quit_app returns and the thread sleeps half a second,
\* or it raises, which is swallowed; then cast.start_app(receiver_id,
\* timeout=30) is called
LaunchQuit ==
    /\ lpc = "quit_app"
    /\ lpc' = "start_app"
    /\ UNCHANGED <<tcall, tpc, tbrowser, launch_success, launch_error, joined, tret>>
    /\ UNCHANGED <<dvars, cvars, mvars, gvars, lvars, wvars>>

\* lines 1388-1392: start_app returns and the thread sleeps two seconds, or
\* it raises and the text of the exception is kept in launch_error
LaunchStart ==
    /\ lpc = "start_app"
    /\ \E err \in {"", "Execution of start app timed out",
                   "Failed to execute start app"} :
         IF err = ""
         THEN lpc' = "load" /\ launch_error' = launch_error
         ELSE lpc' = "end" /\ launch_error' = err
    /\ UNCHANGED <<tcall, tpc, tbrowser, launch_success, joined, tret>>
    /\ UNCHANGED <<dvars, cvars, mvars, gvars, lvars, wvars>>

\* lines 1389-1390
LaunchLoaded ==
    /\ lpc = "load"
    /\ launch_success' = TRUE
    /\ lpc' = "end"
    /\ UNCHANGED <<tcall, tpc, tbrowser, launch_error, joined, tret>>
    /\ UNCHANGED <<dvars, cvars, mvars, gvars, lvars, wvars>>

\* lines 1398-1419: join(timeout=35) returns, when the thread has ended
\* ("ended") or when the timeout has passed and it has not ("timeout"):
\* the code bounds neither quit_app nor the time the thread is given to
\* run, so the 35 seconds can pass wherever the thread is. Whatever
\* is_alive and launch_error say is only printed; the caller sleeps three
\* seconds and calls mc.play_media (lines 1419-1434).
HlsJoin ==
    /\ tpc = "join"
    /\ joined' = IF lpc = "end" THEN "ended" ELSE "timeout"
    /\ tpc' = "play_media"
    /\ UNCHANGED <<tcall, lpc, tbrowser, launch_success, launch_error, tret>>
    /\ UNCHANGED <<dvars, cvars, mvars, gvars, lvars, wvars>>

\* lines 1428-1438: play_media returns and mc.block_until_active(timeout=30)
\* is called, or it raises
HlsPlayed ==
    /\ tpc = "play_media"
    /\ \E o \in Outcome :
         IF o = "ok"
         THEN tpc' = "block_until_active" /\ tret' = tret
         ELSE tpc' = "done" /\ tret' = Excepted
    /\ UNCHANGED <<tcall, lpc, tbrowser, launch_success, launch_error, joined>>
    /\ UNCHANGED <<dvars, cvars, mvars, gvars, lvars, wvars>>

\* lines 1437-1443: block_until_active returns or raises (swallowed); the
\* caller sleeps two seconds
HlsActive ==
    /\ tpc = "block_until_active"
    /\ tpc' = "status"
    /\ UNCHANGED <<tcall, lpc, tbrowser, launch_success, launch_error, joined, tret>>
    /\ UNCHANGED <<dvars, cvars, mvars, gvars, lvars, wvars>>

\* lines 1458-1480
hls_result(state, receiver_id) ==
    CASE state \in {"PLAYING", "BUFFERING"} ->
           [success |-> TRUE, state |-> state, mode |-> "hls"]
      [] state = "IDLE" /\ receiver_id = VISUAL_APP_ID ->
           [success |-> TRUE, state |-> "HLS_JS_PLAYING", mode |-> "hls"]
      [] state = "IDLE" ->
           [success |-> FALSE, error |-> <<"Playback failed", "idle reason">>,
            mode |-> "hls"]
      [] state = "none" -> [success |-> TRUE, state |-> "unknown", mode |-> "hls"]
      [] OTHER -> [success |-> TRUE, state |-> state, mode |-> "hls"]

\* lines 1443-1480: the media status is read (mc.status is None, or has a
\* player_state), the browser stopped and the result returned
HlsStatus ==
    /\ tpc = "status"
    /\ \E st \in {"none", "PLAYING", "BUFFERING", "IDLE", "UNKNOWN"} :
         tret' = hls_result(st, tcall.receiver_id)
    /\ tbrowser' = "stopped"
    /\ tpc' = "done"
    /\ UNCHANGED <<tcall, lpc, launch_success, launch_error, joined>>
    /\ UNCHANGED <<dvars, cvars, mvars, gvars, lvars, wvars>>

HlsNext ==
    \/ HlsInvoke \/ HlsDiscover \/ HlsWait \/ HlsSpawn
    \/ LaunchQuit \/ LaunchStart \/ LaunchLoaded
    \/ HlsJoin \/ HlsPlayed \/ HlsActive \/ HlsStatus

HlsSpec == Init /\ [][HlsNext]_vars

-----------------------------------------------------------------------------
(* cast-daemon.py: the handlers under connections_lock *)

\* Guarded with get_status reading the dict without the lock
GuardedButStatus(fn) == fn # "get_status"

\* lines 49, 196, 241, 262: each of the four has its body under
\* `with connections_lock:`
Guarded(fn) == TRUE

\* the thread moves on
Move(t, at) == handlers' = [handlers EXCEPT ![t].at = at]

\* Release of a function that takes the lock with acquire() and returns
\* from the failed scan without release()
ReleaseButNotFound(t) ==
    lock' = IF lock = t /\ handlers[t].at # "scan" THEN 0 ELSE lock

\* the end of the with block: the lock is released (if it was taken)
Release(t) == lock' = IF lock = t THEN 0 ELSE lock

\* A thread calls one of the functions that touch `connections`.
\* get_or_create_connection is what set_volume, get_volume, ping_speaker
\* and connect_speaker call first; the device call those make afterwards
\* ("op") is outside the lock.
Begin(t) ==
    /\ handlers[t].at = "idle"
    /\ \E fn \in {"get_or_create_connection", "disconnect_speaker",
                  "get_status", "cleanup_all"},
          n \in Names :
         handlers' = [handlers EXCEPT ![t] =
                        [fn |-> fn,
                         name |-> IF fn \in {"get_status", "cleanup_all"} THEN ""
                                  ELSE n,
                         at |-> "acquire"]]
    /\ UNCHANGED <<lock, registry, fault>>
    /\ UNCHANGED <<dvars, cvars, mvars, gvars, tvars, wvars>>

\* `with connections_lock:` blocks until the lock is free and takes it;
\* the function is at its first statement under the lock
Acquire(t) ==
    /\ handlers[t].at = "acquire"
    /\ Guarded(handlers[t].fn) => lock = 0
    /\ lock' = IF Guarded(handlers[t].fn) THEN t ELSE lock
    /\ Move(t, CASE handlers[t].fn = "get_status" -> "list"
                 [] handlers[t].fn = "cleanup_all" -> "clear"
                 [] OTHER -> "lookup")
    /\ UNCHANGED <<registry, fault>>
    /\ UNCHANGED <<dvars, cvars, mvars, gvars, tvars, wvars>>

\* lines 51-53 and 197-199: `speaker_name in connections` and the read of
\* the entry. disconnect_speaker of a name without entry returns (line 233).
Lookup(t) ==
    /\ handlers[t].at = "lookup"
    /\ IF Has(registry, handlers[t].name)
       THEN /\ Move(t, IF handlers[t].fn = "disconnect_speaker" THEN "delete"
                       ELSE "probe")
            /\ lock' = lock
       ELSE IF handlers[t].fn = "disconnect_speaker"
            THEN Move(t, "idle") /\ Release(t)
            ELSE Move(t, "scan") /\ lock' = lock
    /\ UNCHANGED <<registry, fault>>
    /\ UNCHANGED <<dvars, cvars, mvars, gvars, tvars, wvars>>

\* lines 56-62: the read of cast.status returns (the handle is returned,
\* line 60, and the verb makes its device call) or raises
ProbeHandle(t) ==
    /\ handlers[t].at = "probe"
    /\ \E o \in Outcome :
         IF o = "ok"
         THEN Move(t, "op") /\ Release(t)
         ELSE Move(t, "evict") /\ lock' = lock
    /\ UNCHANGED <<registry, fault>>
    /\ UNCHANGED <<dvars, cvars, mvars, gvars, tvars, wvars>>

\* lines 64-69: the dead entry's browser is stopped and the entry deleted
EvictEntry(t) ==
    /\ handlers[t].at = "evict"
    /\ fault' = (fault \/ ~Has(registry, handlers[t].name))
    /\ registry' = Del(registry, handlers[t].name)
    /\ Move(t, "scan")
    /\ lock' = lock
    /\ UNCHANGED <<dvars, cvars, mvars, gvars, tvars, wvars>>

\* lines 74-97, 110-112: get_listed_chromecasts finds the device and
\* cast.wait(timeout=5) returns; or no device is found, or one of the two
\* raises, and None is returned
Connect(t) ==
    /\ handlers[t].at = "scan"
    /\ \E o \in Outcome :
         IF o = "ok"
         THEN Move(t, "insert") /\ lock' = lock
         ELSE Move(t, "idle") /\ Release(t)
    /\ UNCHANGED <<registry, fault>>
    /\ UNCHANGED <<dvars, cvars, mvars, gvars, tvars, wvars>>

\* lines 100-108: the entry is built whole, stored, and the handle returned
InsertEntry(t) ==
    /\ handlers[t].at = "insert"
    /\ registry' = Put(registry, handlers[t].name,
                       [cast |-> t, browser |-> t, connected_at |-> 0,
                        ip |-> "10.0.0.5"])
    /\ Move(t, "op")
    /\ Release(t)
    /\ fault' = fault
    /\ UNCHANGED <<dvars, cvars, mvars, gvars, tvars, wvars>>

\* lines 124, 141-142, 158: the verb's call on the handle it was given,
\* after get_or_create_connection has returned
DeviceOp(t) ==
    /\ handlers[t].at = "op"
    /\ Move(t, "idle")
    /\ UNCHANGED <<lock, registry, fault>>
    /\ UNCHANGED <<dvars, cvars, mvars, gvars, tvars, wvars>>

\* lines 201-231: quit_app, the chime, cast.disconnect and stop_discovery,
\* each in its try block; then del connections[speaker_name]
DeleteEntry(t) ==
    /\ handlers[t].at = "delete"
    /\ fault' = (fault \/ ~Has(registry, handlers[t].name))
    /\ registry' = Del(registry, handlers[t].name)
    /\ Move(t, "idle")
    /\ Release(t)
    /\ UNCHANGED <<dvars, cvars, mvars, gvars, tvars, wvars>>

\* lines 242-256: get_status goes through connections.items()
ListEntries(t) ==
    /\ handlers[t].at = "list"
    /\ Move(t, "idle")
    /\ Release(t)
    /\ UNCHANGED <<registry, fault>>
    /\ UNCHANGED <<dvars, cvars, mvars, gvars, tvars, wvars>>

\* lines 263-273: cleanup_all goes through a copy of connections.items(),
\* hanging up every entry; then connections.clear()
ClearAll(t) ==
    /\ handlers[t].at = "clear"
    /\ registry' = EmptyRegistry
    /\ Move(t, "idle")
    /\ Release(t)
    /\ fault' = fault
    /\ UNCHANGED <<dvars, cvars, mvars, gvars, tvars, wvars>>

LockNext ==
    \E t \in Threads :
       \/ Begin(t) \/ Acquire(t) \/ Lookup(t) \/ ProbeHandle(t) \/ EvictEntry(t)
       \/ Connect(t) \/ InsertEntry(t) \/ DeviceOp(t)
       \/ DeleteEntry(t) \/ ListEntries(t) \/ ClearAll(t)

LockSpec == Init /\ [][LockNext]_vars

-----------------------------------------------------------------------------
(* cast-helper.py: webrtc_connect, set_volume and set_volume_fast *)

\* line 385: for attempt in range(3)
SendAttempts == 3

\* lines 1932-1936, 1985-1997: the script is run with webrtc-connect and a
\* port, with set-volume and a volume, or with set-volume-fast, a volume
\* and perhaps an address. Volumes are in tenths, as for the daemon.
CliInvoke ==
    /\ wpc = "idle"
    /\ \E n \in Names :
         \/ \E port \in {8080, 9090} :
               wcall' = [NoVerb EXCEPT !.verb = "webrtc-connect",
                                       !.speaker_name = n, !.port = port]
         \/ \E v \in {-2, 5, 15} :
               wcall' = [NoVerb EXCEPT !.verb = "set-volume",
                                       !.speaker_name = n, !.volume = v]
         \/ \E v \in {-2, 5, 15}, h \in BOOLEAN :
               wcall' = [NoVerb EXCEPT !.verb = "set-volume-fast",
                                       !.speaker_name = n, !.volume = v,
                                       !.speaker_ip = h]
    /\ wpc' = "discover"
    /\ UNCHANGED <<wrunning, tries, wdevice, wret>>
    /\ UNCHANGED <<dvars, cvars, mvars, gvars, tvars, lvars>>

\* lines 335-345, 1058-1062, 1827-1848: get_listed_chromecasts finds the
\* device, or finds none (the browser is stopped and not-found returned),
\* or raises
CliDiscover ==
    /\ wpc = "discover"
    /\ \E found \in Scans :
         CASE found = "found" ->
                /\ wrunning' = {1}
                /\ wpc' = IF wcall.verb = "webrtc-connect" THEN "launch" ELSE "set"
                /\ wret' = wret
           [] found = "empty" ->
                /\ wret' = SpeakerNotFound(wcall.speaker_name)
                /\ wpc' = "done"
                /\ wrunning' = wrunning
           [] OTHER ->
                /\ wret' = Excepted
                /\ wpc' = "done"
                /\ wrunning' = wrunning
    /\ UNCHANGED <<wcall, tries, wdevice>>
    /\ UNCHANGED <<dvars, cvars, mvars, gvars, tvars, lvars>>

\* lines 347-378 of webrtc_connect: cast.wait, start_app, cast.disconnect,
\* the second discovery, cast2.wait and the registration of the
\* controller. "early": one of the calls up to the second discovery
\* raises; "empty": the second discovery finds no device and both browsers
\* are stopped; "late": a call after the second discovery raises.
ConnectLaunch ==
    /\ wpc = "launch"
    /\ \E o \in {"ok", "early", "empty", "late"} :
         CASE o = "ok" ->
                /\ wrunning' = {1, 2}
                /\ wpc' = "send"
                /\ wret' = wret
           [] o = "empty" ->
                /\ wrunning' = {}
                /\ wpc' = "done"
                /\ wret' = [success |-> FALSE,
                            error |-> <<"Speaker not found on reconnect",
                                        wcall.speaker_name>>]
           [] OTHER ->
                /\ wrunning' = IF o = "early" THEN {1} ELSE {1, 2}
                /\ wpc' = "done"
                /\ wret' = Excepted
    /\ UNCHANGED <<wcall, tries, wdevice>>
    /\ UNCHANGED <<dvars, cvars, mvars, gvars, tvars, lvars>>

\* lines 385-397: the loop ends (break) at the send that did not raise and
\* after the last attempt
ConnectLoopEnds(n, o) == o = "ok" \/ n = SendAttempts

\* lines 404-409: what webrtc_connect returns after the loop
ConnectSent(c) ==
    [success |-> TRUE, mode |-> "webrtc", url |-> <<"http", "local ip", c.port>>,
     message |-> "Connect message sent to receiver"]

\* lines 385-409: one attempt to send the connect message; a send that
\* raises is printed and, unless it was the last, followed by a sleep of
\* two seconds. After the loop the function sleeps, stops both browsers
\* and returns.
ConnectSend ==
    /\ wpc = "send"
    /\ Len(tries) < SendAttempts
    /\ \E o \in Outcome :
         /\ tries' = Append(tries, o)
         /\ IF ConnectLoopEnds(Len(tries) + 1, o)
            THEN /\ wrunning' = {}
                 /\ wret' = ConnectSent(wcall)
                 /\ wpc' = "done"
            ELSE UNCHANGED <<wrunning, wret, wpc>>
    /\ UNCHANGED <<wcall, wdevice>>
    /\ UNCHANGED <<dvars, cvars, mvars, gvars, tvars, lvars>>

\* The volume handed to cast.set_volume. The script has two functions
\* named set_volume: the one of line 415 clamps, the one of line 1052, which
\* replaces it when the module is loaded and is the one line 1988 calls,
\* does not (line 1068). set_volume_fast clamps (line 1824).
VolumePassed(verb, v) == IF verb = "set-volume-fast" THEN Clamp(v) ELSE v

\* lines 1064-1071, 1850-1860: cast.wait and cast.set_volume; the browser
\* is stopped and the volume returned, or one of the calls raises
VolumeSet ==
    /\ wpc = "set"
    /\ \E waited_ok \in BOOLEAN, o \in Outcome :
         IF waited_ok /\ o = "ok"
         THEN /\ wdevice' = VolumePassed(wcall.verb, wcall.volume)
              /\ wrunning' = {}
              /\ wret' = [success |-> TRUE,
                          volume |-> VolumePassed(wcall.verb, wcall.volume)]
         ELSE /\ wdevice' = wdevice
              /\ wrunning' = wrunning
              /\ wret' = Excepted
    /\ wpc' = "done"
    /\ UNCHANGED <<wcall, tries>>
    /\ UNCHANGED <<dvars, cvars, mvars, gvars, tvars, lvars>>

CliNext == CliInvoke \/ CliDiscover \/ ConnectLaunch \/ ConnectSend \/ VolumeSet

CliSpec == Init /\ [][CliNext]_vars

-----------------------------------------------------------------------------
(* Properties *)

IsObject(line) == line.kind = "object"
IsQuit(line) == IsObject(line) /\ line.cmd = "quit"
\* a line whose verb reaches get_or_create_connection
IsLookup(line) ==
    /\ IsObject(line)
    /\ line.cmd \in LookupVerbs
    /\ line.cmd = "set-volume" => line.volume.num
InFlight == pc \in {"process", "write"}

\* C1: lines are handled one at a time and in order. The i-th response
\* printed answers the i-th non-empty line read; every non-empty line read
\* has its response, except the one being handled, which is the latest one
\* read: a line is only taken when every earlier one has been answered.
C1_OneResponsePerLineInOrder ==
    /\ \A i \in 1..Len(out) : out[i].line = i
    /\ Len(out) = IF InFlight THEN nonblank - 1 ELSE nonblank
    /\ InFlight => cur.seq = nonblank
    /\ ~InFlight => cur = NoLine

\* three lines answered in order, a failure and a success among them
C1_Witness ==
    /\ pc = "stopped"
    /\ Len(out) = 3
    /\ ~out[1].success
    /\ out[2].success


Handled == pc = "write"
Others(name) == DOMAIN before.connections \ {name}
\* the entries of every other name are as they were
OthersUntouched(name) ==
    /\ DOMAIN connections \ {name} = Others(name)
    /\ \A n \in Others(name) : connections[n] = before.connections[n]
\* the handles the registry held when cur was taken up
OldHandles == {before.connections[n].cast : n \in DOMAIN before.connections}

\* C2: a lookup verb for a name whose cached handle passes the probe gets
\* that very handle, calls discovery not at all and leaves the registry (and
\* the running browsers) as they were; no command calls discovery more than
\* once, so two consecutive calls for a healthy device call it at most once.
C2_FastPathFrame ==
    Handled =>
      /\ nDiscovery <= before.nDiscovery + 1
      /\ (IsLookup(cur) /\ Has(before.connections, cur.speaker) /\ env.probe = "ok")
           => /\ trace.ret = before.connections[cur.speaker].cast
              /\ trace.ret # 0
              /\ trace.discovery = 0
              /\ nDiscovery = before.nDiscovery
              /\ connections = before.connections
              /\ browsers = before.browsers

\* a second device is cached, and the third command hits the cache
C2_Witness ==
    /\ Handled
    /\ IsLookup(cur)
    /\ trace.probe = "ok"
    /\ Cardinality(DOMAIN connections) = 2
    /\ nDiscovery = 2

\* C3: when the probe of a cached entry fails, the dead handle is neither
\* returned nor left in the registry, discovery is called, and the name ends
\* with a freshly created entry (the handle returned) or, when creation
\* failed, with none; the other entries are as they were.
C3_DeadProbeEvicts ==
    (Handled /\ IsLookup(cur) /\ Has(before.connections, cur.speaker)
       /\ env.probe = "raise")
      => LET dead == before.connections[cur.speaker].cast
         IN /\ trace.ret # dead
            /\ \A n \in DOMAIN connections : connections[n].cast # dead
            /\ trace.discovery = 1
            /\ nDiscovery = before.nDiscovery + 1
            /\ IF env.disc = "found" /\ env.wait = "ok"
               THEN /\ Has(connections, cur.speaker)
                    /\ connections[cur.speaker].cast = trace.ret
                    /\ trace.ret \notin OldHandles \cup {0}
               ELSE /\ ~Has(connections, cur.speaker)
                    /\ trace.ret = 0
            /\ OthersUntouched(cur.speaker)

\* a dead entry was replaced by a fresh one while another device is cached
C3_Witness ==
    /\ Handled
    /\ IsLookup(cur)
    /\ trace.probe = "dead"
    /\ trace.created # 0
    /\ Cardinality(DOMAIN connections) = 2


Failure(res) == ~res.success /\ res.error # <<>>
RegistryAsBefore ==
    /\ connections = before.connections
    /\ browsers = before.browsers
    /\ nextId = before.nextId
    /\ nDiscovery = before.nDiscovery

\* C4: quit empties the registry while it is handled, so the registry is
\* empty when the response {"success": true, "message": "Daemon shutting
\* down"} is printed; after the print the loop is left: the registry stays
\* empty, no further line is read and no further response is printed.
C4_QuitStep ==
    /\ (pc = "process" /\ IsQuit(cur))
         => /\ pc' = "write"
            /\ connections' = EmptyRegistry
            /\ result' = OkSaying("quit", "Daemon shutting down")
            /\ out' = out
    /\ (pc = "write" /\ IsQuit(cur))
         => /\ connections = EmptyRegistry
            /\ out' = Append(out, [line |-> cur.seq, success |-> TRUE])
            /\ pc' = "finally"
            /\ connections' = EmptyRegistry
    /\ pc \in {"finally", "stopped"}
         => /\ pc' \in {"finally", "stopped"}
            /\ out' = out
            /\ nlines' = nlines
            /\ nonblank' = nonblank
            /\ connections = EmptyRegistry => connections' = EmptyRegistry

C4_QuitSemantics == [][C4_QuitStep]_vars

\* quit was handled with a device cached whose disconnect raised
C4_Witness ==
    /\ Handled
    /\ IsQuit(cur)
    /\ before.connections # EmptyRegistry
    /\ trace.raised
    /\ connections = EmptyRegistry

\* C5: a line that is not JSON is answered by {"success": false, "error":
\* "Invalid JSON: ..."} and by nothing else, touches neither the registry
\* nor a device, and the loop reads on: after its response the daemon is as
\* it was before the line, but for the line and response counts.
C5_MalformedStep ==
    /\ (pc = "process" /\ cur.kind = "badjson")
         => /\ pc' = "write"
            /\ result' = Fail("invalid json", "Invalid JSON", "detail")
            /\ trace'.ops = <<>>
            /\ trace'.discovery = 0
            /\ out' = out
            /\ UNCHANGED <<connections, browsers, nextId, nDiscovery>>
    /\ (pc = "write" /\ cur.kind = "badjson")
         => /\ pc' = "read"
            /\ out' = Append(out, [line |-> cur.seq, success |-> FALSE])
            /\ connections' = before.connections
            /\ browsers' = before.browsers
            /\ nextId' = before.nextId
            /\ nDiscovery' = before.nDiscovery
            /\ UNCHANGED <<nlines, nonblank>>

C5_MalformedLine == [][C5_MalformedStep]_vars

\* a malformed line was handled while a device is cached
C5_Witness ==
    /\ Handled
    /\ cur.kind = "badjson"
    /\ connections # EmptyRegistry

\* C6 as stated: whenever a device call made by set_volume, get_volume,
\* ping_speaker, connect_speaker or disconnect_speaker itself raised, the
\* response is a failure.
C6_Original ==
    (Handled /\ IsObject(cur) /\ cur.cmd \in LookupVerbs \cup {"disconnect"}
       /\ trace.failed # {})
      => Failure(result)

\* the exceptions that end a handler: a line that is not JSON or not an
\* object, a volume float() rejects, the verb's own device call
EndsHandler ==
    \/ cur.kind \in {"badjson", "nonobject"}
    \/ IsObject(cur) /\ cur.cmd = "set-volume" /\ ~cur.volume.num
    \/ IsLookup(cur) /\ env.op = "raise"

\* C6 (amended): an exception that ends a handler is answered by a failure
\* with its error text; an exception of the probe, of discovery, of the
\* connection wait or of a call of disconnect_speaker or cleanup_all is
\* dropped where it is raised and leaves the answer to what follows. Either
\* way the one response is printed and the loop goes on (or, after quit,
\* ends as quit does).
C6_ExceptionStep ==
    (pc = "write" /\ trace.raised)
      => /\ EndsHandler <=> trace.caught # "none"
         /\ EndsHandler => Failure(result)
         /\ (IsObject(cur) /\ cur.cmd = "disconnect") => result.success
         /\ out' = Append(out, [line |-> cur.seq, success |-> result.success])
         /\ pc' = IF IsQuit(cur) THEN "finally" ELSE "read"

C6_ExceptionsAnswered == [][C6_ExceptionStep]_vars

\* the device call of a verb raised on a handle just obtained
C6_Witness ==
    /\ Handled
    /\ trace.caught = "handler"
    /\ trace.ops # <<>>
    /\ ~result.success

\* C7: a cmd outside the seven verbs, a missing one included, is answered
\* "Unknown command: <cmd>"; the registry, the browsers and the discovery
\* count are as before, and no probe, discovery or device call was made.
C7_UnknownCommand ==
    (Handled /\ IsObject(cur) /\ cur.cmd \notin Verbs)
      => /\ result = Fail("unknown", "Unknown command", cur.cmd)
         /\ RegistryAsBefore
         /\ trace = NoTrace

\* a line without cmd was handled while a device is cached
C7_Witness ==
    /\ Handled
    /\ IsObject(cur)
    /\ cur.cmd = ""
    /\ connections # EmptyRegistry

\* creation was needed and did not yield a connected handle
CreationFails ==
    /\ IsLookup(cur)
    /\ ~(Has(before.connections, cur.speaker) /\ env.probe = "ok")
    /\ ~(env.disc = "found" /\ env.wait = "ok")

\* C8: when discovery finds nothing (or raises) or the connection wait
\* fails, get_or_create_connection returns None, the name has no entry, the
\* verb answers "Speaker '<name>' not found" and makes no device call.
C8_NotFound ==
    (Handled /\ CreationFails)
      => /\ trace.discovery = 1
         /\ trace.ret = 0
         /\ ~Has(connections, cur.speaker)
         /\ OthersUntouched(cur.speaker)
         /\ result = NotFound(cur.speaker)
         /\ trace.ops = <<>>
         /\ trace.sent = {}

\* the device was found and the wait for the connection raised
C8_Witness ==
    /\ Handled
    /\ IsLookup(cur)
    /\ env.disc = "found"
    /\ env.wait = "raise"
    /\ result = NotFound(cur.speaker)

\* the records a status query would list now
Listed == get_status(World, nlines).result.listing

\* C9 as stated: any of the four verbs on an uncached device that discovery
\* finds and connects to leaves the device cached and listed.
C9_Original ==
    (Handled /\ IsObject(cur) /\ cur.cmd \in LookupVerbs
       /\ ~Has(before.connections, cur.speaker)
       /\ env.disc = "found" /\ env.wait = "ok")
      => /\ Has(connections, cur.speaker)
         /\ \E r \in Listed : r.name = cur.speaker

\* C9 (amended): a successful creation leaves the name with an entry that
\* holds the created handle (held by no other entry, and new) and its
\* resolved address; get-volume, ping, connect, and set-volume with a
\* numeric volume, on an uncached device that discovery finds and connects
\* to, therefore leave the device cached and listed by a following status,
\* whatever the verb's own device call does.
C9_CreatedIsCached ==
    /\ (Handled /\ trace.created # 0)
         => /\ Has(connections, cur.speaker)
            /\ connections[cur.speaker].cast = trace.created
            /\ connections[cur.speaker].ip = env.host
            /\ trace.ret = trace.created
            /\ trace.created \notin OldHandles
            /\ \A n \in DOMAIN connections \ {cur.speaker} :
                  connections[n].cast # trace.created
    /\ (Handled /\ IsLookup(cur) /\ ~Has(before.connections, cur.speaker)
          /\ env.disc = "found" /\ env.wait = "ok")
         => /\ trace.created # 0
            /\ Has(connections, cur.speaker)
            /\ [name |-> cur.speaker, ip |-> env.host, connected_at |-> nlines,
                age_seconds |-> 0] \in Listed

\* set-volume created the second cached entry, and cast.set_volume raised
C9_Witness ==
    /\ Handled
    /\ cur.cmd = "set-volume"
    /\ trace.created # 0
    /\ env.op = "raise"
    /\ Cardinality(DOMAIN connections) = 2

\* C10: disconnect removes the entry of its name and no other, answers
\* success whatever its device calls do, and calls no discovery; without an
\* entry it changes nothing and calls nothing. A second disconnect of the
\* same name leaves the registry and the browsers as the first one left them.
C10_Disconnect ==
    /\ (Handled /\ IsObject(cur) /\ cur.cmd = "disconnect")
         => /\ ~Has(connections, cur.speaker)
            /\ OthersUntouched(cur.speaker)
            /\ result.success
            /\ result.error = <<>>
            /\ trace.discovery = 0
            /\ nDiscovery = before.nDiscovery
            /\ ~Has(before.connections, cur.speaker)
                 => /\ RegistryAsBefore
                    /\ trace = NoTrace
                    /\ result = OkSaying("not connected", "Not connected")
    /\ pc = "read"
         => \A n \in Names : \A e1 \in DisconnectEnvs(Has(connections, n)) :
               LET once == disconnect_speaker(World, n, e1)
               IN \A e2 \in DisconnectEnvs(Has(once.w.connections, n)) :
                     LET twice == disconnect_speaker(once.w, n, e2)
                     IN /\ twice.w.connections = once.w.connections
                        /\ twice.w.browsers = once.w.browsers
                        /\ twice.w.trace = once.w.trace
                        /\ once.result.success
                        /\ twice.result.success

\* a cached device was disconnected, a device call raised, another stays
C10_Witness ==
    /\ Handled
    /\ cur.cmd = "disconnect"
    /\ Has(before.connections, cur.speaker)
    /\ trace.raised
    /\ result.success
    /\ connections # EmptyRegistry

\* C11: when sys.stdin ends without a quit, the loop ends and the finally
\* clause runs cleanup_all. Nothing is printed for the end of input: the
\* responses are those of the non-empty lines read. Once the daemon has
\* stopped the registry is empty, whatever cast.disconnect and stop_discovery
\* did on the entries it held; every browser whose stop_discovery did not
\* raise is gone; and a further cleanup_all changes neither the registry nor
\* the browsers.
C11_EndOfInput ==
    /\ pc \in {"finally", "stopped"}
         => /\ cur = NoLine
            /\ result = NoResult
            /\ Len(out) = nonblank
    /\ pc = "stopped"
         => /\ connections = EmptyRegistry
            /\ browsers = before.browsers \
                  {before.connections[n].browser :
                      n \in DOMAIN before.connections \ env.badStop}
            /\ nDiscovery = before.nDiscovery
            /\ \A e2 \in CleanupEnvs(connections) :
                  LET again == cleanup_all(World, e2)
                  IN /\ again.connections = connections
                     /\ again.browsers = browsers

\* the input ended while two devices were cached, no quit had been read, and
\* the disconnect of one of them raised during the cleanup
C11_Witness ==
    /\ pc = "stopped"
    /\ Cardinality(DOMAIN before.connections) = 2
    /\ env.badHangup # {}
    /\ env.badStop # {}
    /\ \A i \in 1..Len(out) : out[i].success
    /\ connections = EmptyRegistry

-----------------------------------------------------------------------------
(* Properties of cast-helper.py *)

MulticastDone == mpc = "done"

\* C12: the result of webrtc_launch_multicast counts every name of the list
\* once: launched and failed together are as long as the list, total is the
\* length of the list, and success says that launched is not empty. While
\* the loop runs the two lists together hold the devices done with.
C12_MulticastAggregation ==
    /\ mpc \in {"loop", "call"} => Len(launched) + Len(failed) = idx
    /\ MulticastDone
         => /\ Len(mret.launched) + Len(mret.failed) = mret.total
            /\ mret.total = Len(speaker_names)
            /\ mret.success = (Len(mret.launched) > 0)
            /\ speaker_names = <<>> => ~mret.success /\ mret.total = 0

\* a list of three devices was tried and every one of them failed
C12_Witness ==
    /\ MulticastDone
    /\ Len(speaker_names) = 3
    /\ Len(mret.failed) = 3
    /\ ~mret.success

RECURSIVE NamesOf(_, _)
\* the names of the calls of webrtc_launch that ended with success = ok, in
\* the order of the calls
NamesOf(calls, ok) ==
    IF calls = <<>> THEN <<>>
    ELSE IF Head(calls).success = ok
         THEN <<Head(calls).name>> \o NamesOf(Tail(calls), ok)
         ELSE NamesOf(Tail(calls), ok)

\* C13: webrtc_launch is called once for every name of the list, in the
\* order of the list and with the hint of the same position, whatever the
\* earlier calls returned; the loop ends only when the whole list is done.
\* launched holds the names of the calls that succeeded and failed those of
\* the calls that did not, each in the order of the calls, so every call's
\* name went to exactly one of the two lists.
C13_EveryDeviceOnceInOrder ==
    /\ Len(attempts) = idx
    /\ idx <= Len(speaker_names)
    /\ \A k \in 1..Len(attempts) :
         /\ attempts[k].name = speaker_names[k]
         /\ attempts[k].hinted = HintFor(speaker_ips, k)
    /\ mpc = "call" => /\ call.fn = "webrtc_launch"
                       /\ call.speaker_name = speaker_names[idx + 1]
    /\ launched = NamesOf(attempts, TRUE)
    /\ [k \in 1..Len(failed) |-> failed[k].name] = NamesOf(attempts, FALSE)
    /\ MulticastDone => /\ idx = Len(speaker_names)
                        /\ mret.launched = launched
                        /\ mret.failed = failed

\* the second of three devices failed and the third was launched all the same
C13_Witness ==
    /\ MulticastDone
    /\ Len(attempts) = 3
    /\ attempts[1].success
    /\ ~attempts[2].success
    /\ attempts[3].success

\* a call of webrtc_launch or webrtc_proxy_connect has returned
CallDone == hpc = "done" /\ Returned(ret)

\* cast.start_app raised, which ended the call
StartFailed == CallDone /\ started \in StartErrors

Has_fallback(r) == "fallback_available" \in DOMAIN r /\ r.fallback_available

\* C14: a start_app that raises makes webrtc_launch and webrtc_proxy_connect
\* return a failure with a kind: error_code CUSTOM_RECEIVER_NOT_SUPPORTED and
\* fallback_available true when the exception says the device cannot start
\* the receiver (line 575, 790), error_code UNKNOWN and no
\* fallback_available for any other exception; and no other result has
\* fallback_available true.
C14_StartFailureClassified ==
    /\ StartFailed
         => /\ ~ret.success
            /\ "error_code" \in DOMAIN ret
            /\ IF Unsupported(started)
               THEN /\ ret.error_code = "CUSTOM_RECEIVER_NOT_SUPPORTED"
                    /\ Has_fallback(ret)
               ELSE /\ ret.error_code = "UNKNOWN"
                    /\ "fallback_available" \notin DOMAIN ret
    /\ (CallDone /\ Has_fallback(ret)) => (StartFailed /\ Unsupported(started))

\* the ways the steps of a call can begin: the scans, the connection wait,
\* the launch
ScanPrefixes == {<<"scan hinted">>, <<"scan hinted", "scan full">>, <<"scan full">>}
Quits == {"quit_app", "quit_app raised"}
Through(rest) ==
    {p \o <<"wait", q, "start_app">> \o rest : p \in ScanPrefixes, q \in Quits}

Range(seq) == {seq[k] : k \in 1..Len(seq)}

Succeeded == CallDone /\ ret.success

QualityFlags == {Null, "no_data", "no_session"}

WaitDone == call.fn = "webrtc_proxy_connect" /\ "wait_for_message" \in Range(steps)

\* the messages delivered after request_offer was sent and before
\* message_event.wait returned
InInterval == {k \in 1..Len(arrivals) : arrivals[k].phase \in {"requested", "waiting"}}

TimedOut == WaitDone /\ offer_response = NoMessage

\* C16: whatever the interleaving of receive_message with wait_for_message,
\* an offer delivered after request_offer was sent and before the deadline
\* is returned by wait_for_message, and wait_for_message returns None (the
\* relay reports the timeout) only when no message was delivered in that
\* interval.
C16_OfferNeverLost ==
    /\ (WaitDone /\ \E k \in InInterval : arrivals[k].msg = Offer)
         => offer_response # NoMessage
    /\ TimedOut => InInterval = {}
    /\ (CallDone /\ TimedOut)
         => ret.error = <<"Timeout waiting for offer from receiver">>

\* receive_message was never called
NothingArrived == arrivals = <<>> /\ rx = NoMessage /\ messages = <<>>

Last(seq) == seq[Len(seq)]

\* C17: wait_for_message calls message_event.wait once, with the timeout,
\* and webrtc_proxy_connect calls wait_for_message once: the wait never
\* lasts longer than OfferTimeout, whether a message comes or not, and once
\* it has returned the function never waits again. When no message ever
\* arrives the wait lasts the whole timeout, returns None, and the function
\* returns the failure 'Timeout waiting for offer from receiver' with
\* nothing done after the wait.
C17_SingleBoundedWait ==
    /\ waits <= 1
    /\ waited <= OfferTimeout
    /\ WaitDone => hpc \in {"check", "post", "answer", "done"}
    /\ (WaitDone /\ NothingArrived)
         => /\ waits = 1
            /\ waited = OfferTimeout
            /\ offer_response = NoMessage
            /\ Last(steps) = "wait_for_message"
            /\ hpc = "done"
                 => ret = [success |-> FALSE,
                           error |-> <<"Timeout waiting for offer from receiver">>]

\* no message came, the wait lasted 15 s, the timeout was returned
C17_Witness ==
    /\ CallDone
    /\ WaitDone
    /\ NothingArrived
    /\ waited = OfferTimeout
    /\ ~ret.success

PostDone == call.fn = "webrtc_proxy_connect" /\ "post" \in Range(steps)

AnswerSent == \E k \in 1..Len(sent) : sent[k].type = "answer"

FailedCall == CallDone /\ ~ret.success

\* the offer step failed: no message, a message of another type, an offer
\* without sdp
BadOffer ==
    /\ WaitDone
    /\ \/ offer_response = NoMessage
       \/ offer_response.type # "offer"
       \/ "sdp" \notin DOMAIN offer_response

BadPost == PostDone /\ http.reply.kind \in {"HTTPError", "URLError"}

NotFoundCall == FailedCall /\ ret = SpeakerNotFound(call.speaker_name)

\* C19: in webrtc_launch and webrtc_proxy_connect no step is made twice, and
\* a step that fails is the last one made. After a scan that found no
\* device nothing but scans was done; after a start_app that raised, no
\* readiness poll, no message and no POST; after a failed offer step (timeout,
\* other type, no sdp) no POST and no answer; after a POST that ended in an
\* HTTP error or could not reach the endpoint, no answer; and no failed call
\* ran the verification. The failed call has returned a result with
\* success false.
C19_FailureShortCircuits ==
    /\ \A j, k \in 1..Len(steps) : j # k => steps[j] # steps[k]
    /\ NotFoundCall
         => /\ steps \in {<<"scan full">>, <<"scan hinted", "scan full">>}
            /\ sent = <<>>
    /\ started \in StartErrors
         => /\ FailedCall
            /\ Last(steps) = "start_app"
            /\ sent = <<>>
            /\ http = NoHttp
    /\ BadOffer
         => /\ hpc \in {"check", "done"}
            /\ Last(steps) = "wait_for_message"
            /\ sent = <<RequestOffer(call)>>
            /\ http = NoHttp
            /\ hpc = "done" => FailedCall
    /\ BadPost
         => /\ FailedCall
            /\ Last(steps) = "post"
            /\ sent = <<RequestOffer(call)>>
    /\ FailedCall
         => /\ "verify" \notin Range(steps)
            /\ ~AnswerSent
            /\ "error" \in DOMAIN ret
    /\ hpc = "done" => Returned(ret)

\* the device sent an offer without sdp: the call failed at the offer step
C19_Witness ==
    /\ FailedCall
    /\ ret.error = <<"No SDP in offer">>
    /\ offer_response = [type |-> "offer"]
    /\ sent = <<RequestOffer(call)>>
    /\ http = NoHttp

\* the replies the verification polls got up to now held a session of the
\* stream (seen.session), one with bytes sent (seen.data)
Verifying == call.fn = "webrtc_launch" /\ hpc \in {"verify", "report"}

C21_AnswerOnce ==
    /\ Cardinality({k \in 1..Len(sent) : sent[k].type = "answer"}) <= 1
    /\ AnswerSent
         => /\ call.fn = "webrtc_proxy_connect"
            /\ offer_response # NoMessage
            /\ offer_response.type = "offer"
            /\ "sdp" \in DOMAIN offer_response
            /\ http.posted = [stream |-> call.stream_name,
                              body |-> [utf8 |-> offer_response.sdp]]
            /\ http.reply.kind = "reply"
            /\ sent = <<[type |-> "request_offer", stream |-> call.stream_name],
                        [type |-> "answer", sdp |-> http.reply.body.utf8]>>
            /\ waits = 1
            /\ Last(steps) = "answer"
            /\ CallDone
            /\ ret.success
            /\ ret.mode = "webrtc-proxy"
    /\ (CallDone /\ call.fn = "webrtc_proxy_connect" /\ ret.success) => AnswerSent

\* the answer was sent and success returned
C21_Witness ==
    /\ CallDone
    /\ AnswerSent
    /\ ret.success
    /\ Len(sent) = 2
    /\ Len(arrivals) >= 1

\* C24: when a line carries an address hint and the hinted probe finds no
\* device of the name, get_or_create_connection makes a full scan before
\* the verb answers not-found: the not-found answer to a hinted line comes
\* after a full scan, the second discovery of the line.
C24_HintedFallsBackToFull ==
    (Handled /\ IsLookup(cur) /\ cur.ip /\ env.disc = "empty"
       /\ ~(Has(before.connections, cur.speaker) /\ env.probe = "ok")
       /\ result = NotFound(cur.speaker))
      => /\ trace.scan = "full"
         /\ trace.discovery = 2

\* the result is self-describing: success is a boolean, and a result
\* with success false has an error
SelfDescribing(r) ==
    /\ "success" \in DOMAIN r
    /\ r.success \in BOOLEAN
    /\ ~r.success => "error" \in DOMAIN r

\* C27: every result returned by webrtc_launch, webrtc_proxy_connect and
\* webrtc_launch_multicast has a boolean success, and an error when success
\* is false.
C27_SelfDescribing ==
    /\ Returned(ret) => SelfDescribing(ret)
    /\ Returned(mret) => SelfDescribing(mret)

\* C29: a status query leaves the registry, the running browsers and the
\* discovery counters as they were and makes no probe, no discovery and no
\* device call; its response lists one record (name, ip, connected_at, age
\* in seconds) for every entry of the registry and none besides, and
\* connection_count is the number of entries.
C29_StatusHasNoEffect ==
    (Handled /\ IsObject(cur) /\ cur.cmd = "status")
      => /\ RegistryAsBefore
         /\ trace = NoTrace
         /\ result.success
         /\ result.error = <<>>
         /\ {r.name : r \in result.listing} = DOMAIN connections
         /\ \A r \in result.listing :
               /\ r.ip = connections[r.name].ip
               /\ r.connected_at = connections[r.name].connected_at
               /\ r.age_seconds = nlines - connections[r.name].connected_at
         /\ Cardinality(result.listing) = Cardinality(DOMAIN connections)
         /\ result.count = Cardinality(DOMAIN connections)

\* a status query answered while two devices are cached, created at
\* different times
C29_Witness ==
    /\ Handled
    /\ cur.cmd = "status"
    /\ result.count = 2
    /\ \E r1, r2 \in result.listing : r1.age_seconds # r2.age_seconds

\* the device calls disconnect_speaker makes on a cached handle, given what
\* each of them does
ExpectedDisconnectOps ==
    <<"quit_app", "start_app">>
      \o (IF env.start = "ok" THEN <<"quit_app">> ELSE <<>>)
      \o <<"disconnect">>

\* C30: disconnect of a cached speaker removes its entry and answers
\* {"success": true} whichever of quit_app, start_app, the second quit_app,
\* cast.disconnect and stop_discovery raises. A quit_app that raises does
\* not keep the chime or the socket disconnect from being tried; a
\* start_app that raises only skips the quit_app after it. No exception
\* reaches the handler's or main's except clause.
C30_DisconnectBestEffort ==
    (Handled /\ IsObject(cur) /\ cur.cmd = "disconnect"
       /\ Has(before.connections, cur.speaker))
      => /\ ~Has(connections, cur.speaker)
         /\ result = Ok("disconnected")
         /\ trace.caught = "none"
         /\ trace.ops = ExpectedDisconnectOps
         /\ trace.raised
              <=> "raise" \in {env.quit1, env.start, env.quit2, env.hangup, env.stop}
         /\ env.stop = "ok"
              => before.connections[cur.speaker].browser \notin browsers

\* everything that can raise did: the first quit_app, the chime's
\* start_app, the socket disconnect and stop_discovery
C30_Witness ==
    /\ Handled
    /\ cur.cmd = "disconnect"
    /\ Has(before.connections, cur.speaker)
    /\ env.quit1 = "raise"
    /\ env.start = "raise"
    /\ env.hangup = "raise"
    /\ env.stop = "raise"
    /\ result.success
    /\ ~Has(connections, cur.speaker)

-----------------------------------------------------------------------------
(* Properties of get_group_members *)

GroupDone == gpc = "done" /\ Returned(gret)

\* the devices of the list, as a set
Discovered == {chromecasts[k] : k \in 1..Len(chromecasts)}

\* the members returned, as a set
MembersReturned == {gret.members[k] : k \in 1..Len(gret.members)}

\* C25: when the member-list query yields no identifier, get_group_members
\* returns the devices discovered at the group's address that are not
\* groups (device kind individual), each once, with its name, address and
\* identifier: every such device, and no other.
C25_SharedAddressMembers ==
    (GroupDone /\ gret.success /\ member_uuids.ids = {})
      => /\ MembersReturned =
              {member_data(cc) : cc \in {x \in Discovered :
                                           /\ x.host = group_cast.host
                                           /\ x.cast_type # "group"}}
         /\ Len(gret.members) = Cardinality(MembersReturned)
         /\ gret.count = Len(gret.members)

\* C26: when the member-list query yields identifiers, get_group_members
\* returns the discovered devices whose identifier is among them and no
\* other, also when no discovered device is; the device taken for the
\* group is of cast type 'group'; and when no such device of the name was
\* discovered the failure is returned without a member query.
C26_ListedMembers ==
    /\ (GroupDone /\ gret.success /\ member_uuids.ids # {})
         => /\ MembersReturned =
                 {member_data(cc) : cc \in {x \in Discovered :
                                              x.uuid \in member_uuids.ids}}
            /\ Len(gret.members) = Cardinality(MembersReturned)
    /\ group_cast # NoDevice
         => /\ group_cast.cast_type = "group"
            /\ group_cast.name = group_name
    /\ (GroupDone /\ group_cast = NoDevice /\ chromecasts # <<>>)
         => /\ gret = [success |-> FALSE, error |-> <<"Group not found", group_name>>]
            /\ queries = 0

-----------------------------------------------------------------------------
(* Properties of hls_cast_to_tv *)

\* the caller is in a call on the handle; the launch thread is
CallerDrives == tpc \in {"play_media", "block_until_active"}
ThreadDrives == lpc \in {"quit_app", "start_app"}

\* C22: the handle of a device is never driven by two operations at once:
\* in hls_cast_to_tv the caller makes no call on the handle while its
\* launch thread is in one, also after the join has timed out.
C22_HandleNotShared == ~(CallerDrives /\ ThreadDrives)

-----------------------------------------------------------------------------
(* Properties of the handlers under connections_lock *)

\* the positions at which a function reads or writes the dict
MapAccess == {"lookup", "evict", "insert", "delete", "list", "clear"}

\* C23: a thread that looks up, inserts, deletes, lists or clears entries of
\* `connections` holds connections_lock, so no two threads are at the dict
\* at once, however the handlers interleave; no del finds its entry taken
\* away by another thread, and every entry the dict holds is whole (cast,
\* browser, connected_at and ip).
C23_MapUnderLock ==
    /\ \A t \in Threads : handlers[t].at \in MapAccess => lock = t
    /\ \A t1, t2 \in Threads :
          (t1 # t2 /\ handlers[t1].at \in MapAccess)
            => handlers[t2].at \notin MapAccess
    /\ ~fault
    /\ \A n \in DOMAIN registry :
          DOMAIN registry[n] = {"cast", "browser", "connected_at", "ip"}

\* one thread is about to store the entry of a name while the other waits
\* for the lock to list the entries, a second speaker being cached
C23_Witness ==
    /\ handlers[1].at = "insert"
    /\ handlers[2] = [fn |-> "get_status", name |-> "", at |-> "acquire"]
    /\ lock = 1
    /\ registry # EmptyRegistry

-----------------------------------------------------------------------------
(* Properties of the signaling: stale messages *)

\* C31: the message webrtc_proxy_connect takes as the response to
\* request_offer was received after request_offer was sent: a message
\* delivered earlier, while the readiness polls ran, is never what
\* wait_for_message returns. (The list is first in, first out and is read
\* once, so what is returned is the first message delivered.)
C31_ResponseAnswersRequest ==
    offer_response # NoMessage
      => /\ arrivals # <<>>
         /\ arrivals[1].msg = offer_response
         /\ arrivals[1].phase # "early"

-----------------------------------------------------------------------------
(* Properties of the readiness wait *)

\* the readiness wait is over and the next step has not been taken
ReadinessOver == hpc = "send" /\ steps # <<>> /\ Last(steps) = "readiness"

\* C32: the readiness wait polls the status at most ReadyPolls (10) times;
\* it goes on only while no poll has shown the receiver's app id and stops
\* at the first that does; after ReadyPolls polls without a match the call
\* is at its next step (request_offer in webrtc_proxy_connect, the connect
\* message in webrtc_launch) and has not returned: the wait ends a call
\* only when update_status raises.
C32_ReadinessBounded ==
    /\ hpc = "ready" => poll < ReadyPolls /\ ~ready
    /\ ReadinessOver => /\ poll \in 1..ReadyPolls
                        /\ ready \/ poll = ReadyPolls
                        /\ ret = NoReturn
    /\ (hpc = "done" /\ steps # <<>> /\ Last(steps) = "readiness")
         => ret = Excepted

\* ten polls showed another app id and request_offer is about to be sent
C32_Witness ==
    /\ ReadinessOver
    /\ call.fn = "webrtc_proxy_connect"
    /\ poll = ReadyPolls
    /\ ~ready

-----------------------------------------------------------------------------
(* Properties of the launch *)

\* the launch is the last thing the call did
EndedAtLaunch == hpc = "done" /\ steps # <<>> /\ Last(steps) \in Quits \cup {"start_app"}

\* C33: in webrtc_launch and webrtc_proxy_connect every start_app comes
\* right after an attempt of quit_app, and every attempt of quit_app,
\* failed or not, is followed by start_app; a call that ends at the launch
\* reports what start_app did and nothing of quit_app: a failure only
\* when start_app raised, with the text of that exception.
C33_QuitBeforeStart ==
    /\ \A k \in 1..Len(steps) :
          /\ steps[k] = "start_app" => k > 1 /\ steps[k - 1] \in Quits
          /\ steps[k] \in Quits => k < Len(steps) /\ steps[k + 1] = "start_app"
    /\ EndedAtLaunch
         => IF started \in StartErrors
            THEN ret = start_failure(call.fn, started)
            ELSE ret = LaunchedWithoutUrl

\* quit_app raised, start_app was called and the call went on to success
C33_Witness ==
    /\ Succeeded
    /\ "quit_app raised" \in Range(steps)
    /\ "start_app" \in Range(steps)
    /\ call.fn = "webrtc_proxy_connect"

-----------------------------------------------------------------------------
(* Properties of the verification *)

\* the verification of webrtc_launch has run and the call has returned
Verified == CallDone /\ call.fn = "webrtc_launch" /\ "verify" \in Range(steps)

\* C34: the verification of webrtc_launch polls the session endpoint at
\* most VerifyPolls (4) times, goes on only while no poll has seen bytes
\* flowing and stops at the first that has; a poll that raises (seen.errors
\* counts them) is one of the polls and the call returns success all the
\* same; when every poll raised, four polls were made and the result is
\* success with warning no_session.
C34_VerifyBounded ==
    /\ hpc = "verify" => poll < VerifyPolls /\ ~data_flowing /\ seen.errors <= poll
    /\ hpc = "report" => /\ poll \in 1..VerifyPolls
                         /\ data_flowing \/ poll = VerifyPolls
                         /\ seen.errors <= poll
    /\ Verified
         => /\ ret.success
            /\ poll \in 1..VerifyPolls
            /\ poll < VerifyPolls => ret.verified
            /\ seen.errors = poll
                 => /\ poll = VerifyPolls
                    /\ ret.warning = "no_session"
                    /\ ~ret.verified

\* the endpoint was down at each of the four polls
C34_Witness ==
    /\ Verified
    /\ seen.errors = VerifyPolls
    /\ ret.success
    /\ ret.warning = "no_session"

-----------------------------------------------------------------------------
(* Properties of the payloads *)

\* a POST was made
Posted == http # NoHttp

\* C35: in webrtc_proxy_connect the body POSTed to the negotiation endpoint
\* is the UTF-8 form of the sdp of the message wait_for_message returned,
\* which is of type offer and has an sdp; the path is that of the stream
\* named in request_offer; the sdp of the answer message is the text whose
\* UTF-8 form is the body the endpoint returned. Nothing is POSTed for a
\* message of another type, for an offer without sdp, or when no message
\* came.
C35_PayloadsForwarded ==
    /\ Posted
         => /\ offer_response # NoMessage
            /\ offer_response.type = "offer"
            /\ "sdp" \in DOMAIN offer_response
            /\ "utf8" \in DOMAIN http.posted.body
            /\ http.posted.body.utf8 = offer_response.sdp
            /\ sent # <<>>
            /\ sent[1] = [type |-> "request_offer", stream |-> http.posted.stream]
            /\ http.posted.stream = call.stream_name
    /\ \A k \in 1..Len(sent) :
          sent[k].type = "answer"
            => /\ Posted
               /\ http.reply.kind = "reply"
               /\ http.reply.body = [utf8 |-> sent[k].sdp]
    /\ (PostDone /\ hpc = "done" /\ ~Posted) => ret = Excepted

\* the offer was POSTed and the endpoint's answer sent to the device
C35_Witness ==
    /\ Posted
    /\ AnswerSent
    /\ http.posted.body = [utf8 |-> "v=0 offer"]
    /\ sent[Len(sent)].sdp = "v=0 answer"


\* the positions inside the with block, and those outside it
InsideWith == MapAccess \cup {"probe", "scan"}
OutsideWith == {"idle", "acquire", "op"}

\* C36: connections_lock is held by a thread exactly while the thread is
\* inside the with block of get_or_create_connection, disconnect_speaker,
\* get_status or cleanup_all: it is released on every way out (cache hit,
\* no entry, device not found, exception), no thread waits for the lock
\* while holding it, and whenever every thread is between two commands
\* the lock is free.
C36_LockReleased ==
    /\ lock \in Threads \cup {0}
    /\ \A t \in Threads :
          /\ handlers[t].at \in InsideWith \cup OutsideWith
          /\ handlers[t].at \in OutsideWith => lock # t
          /\ handlers[t].at \in InsideWith => lock = t
    /\ (\A t \in Threads : handlers[t].at = "idle") => lock = 0

\* get_or_create_connection found no device and returned; the other thread
\* has taken the lock since
C36_Witness ==
    /\ handlers[1].fn = "get_or_create_connection"
    /\ handlers[1].at = "idle"
    /\ ~Has(registry, handlers[1].name)
    /\ lock = 2
    /\ handlers[2].at = "lookup"
    /\ handlers[2].name = handlers[1].name

-----------------------------------------------------------------------------
(* Properties of the discovery browsers *)

\* the browsers started while cur was handled that are still running
StartedByCur == browsers \ before.browsers

\* C37: no discovery browser is leaked by get_or_create_connection: when
\* a verb that called it has its answer, every browser started for the
\* line and still running is the one stored in the entry the call created,
\* whatever happened (no device found, the connection wait failed, another
\* exception).
C37_NoBrowserLeaked ==
    (Handled /\ IsLookup(cur))
      => \A b \in StartedByCur :
            /\ Has(connections, cur.speaker)
            /\ connections[cur.speaker].browser = b
            /\ trace.created = b

-----------------------------------------------------------------------------
(* Properties of webrtc_connect and of the script's volume verbs *)

\* webrtc_connect has returned that the connect message was sent
ConnectReported ==
    wpc = "done" /\ wcall.verb = "webrtc-connect" /\ Returned(wret) /\ wret.success

\* C38: webrtc_connect tries to send the connect message at most
\* SendAttempts (3) times; no attempt follows one that succeeded; and it
\* returns success ('Connect message sent to receiver') only when one of
\* the attempts succeeded.
C38_ConnectSentOnce ==
    /\ Len(tries) <= SendAttempts
    /\ \A k \in 1..Len(tries) : tries[k] = "ok" => k = Len(tries)
    /\ ConnectReported => \E k \in 1..Len(tries) : tries[k] = "ok"

\* a set-volume path has answered success
VolumeAnswered ==
    wpc = "done" /\ wcall.verb \in {"set-volume", "set-volume-fast"}
      /\ Returned(wret) /\ wret.success

\* C39: the helper's set-volume paths hand to the device, and report in
\* the response, the requested volume clamped to [0, 1] (0..10 in tenths):
\* a volume in the range unchanged, a larger one as 1, a smaller one as 0.
C39_VolumeClamped ==
    VolumeAnswered
      => /\ wdevice = Clamp(wcall.volume)
         /\ wret.volume = Clamp(wcall.volume)
         /\ wdevice \in MinVolume..MaxVolume

====
